---------------------------- MODULE Spec2Model ----------------------------
(***************************************************************************)
(* Model of app/extract.py of jw-news-reader: extract_article(url), i.e.   *)
(* validate_url, fetch_html and the extract_from_html pipeline.            *)
(*                                                                         *)
(* Strings are sequences of atoms.  An atom is a run of characters that    *)
(* the code never looks inside (a word, "https", "jw") or a single         *)
(* character the code does look for (":", "/", ".", "@", " ", "\n").       *)
(* None is the empty sequence where the code only tests truthiness, and 0  *)
(* for a node reference.                                                   *)
(***************************************************************************)
EXTENDS Integers, Sequences, FiniteSets, TLC

VARIABLES
    pc,             \* position in extract_article / extract_from_html
    url,            \* the argument of extract_article (base_url of extract_from_html)
    upstream,       \* what the network answers to a GET of url
    verdict,        \* outcome of validate_url: "", "ok", "ExtractionError", "ValueError"
    fetches,        \* number of GET requests issued so far
    error,          \* the exception that aborted the call, "" when none
    result,         \* the returned dict as <<dict>>, <<>> when nothing was returned
    html,           \* the fetched page (markup), <<>> before the fetch
    dom,            \* the parsed tree(s), <<>> before parsing
    container,      \* the selected container node, 0 before selection
    title,          \* the detected title, None when there is none
    title_node,     \* the recorded title node, 0 when there is none
    fallback_image, \* <<image>> found by _extract_fallback_image, <<>> when none
    images,         \* the images list
    markdown,       \* the markdown text
    snap            \* history: the tree and markdown as each stage found them

vars == <<pc, url, upstream, verdict, fetches, error, result, html, dom, container,
          title, title_node, fallback_image, images, markdown, snap>>

-----------------------------------------------------------------------------
(* Strings *)

None == <<>>

\* str.lower() / str.casefold() on the atoms that have upper-case letters
ToLower(a) ==
    CASE a = "HTTPS" -> "https"
      [] a = "HTTP" -> "http"
      [] a = "TEXT/HTML" -> "text/html"
      [] a = "_XL" -> "_xl"
      [] a = "JW" -> "jw"
      [] a = "ORG" -> "org"
      [] OTHER -> a

LowerStr(s) == [i \in 1..Len(s) |-> ToLower(s[i])]

\* s.find(a), 1-based; 0 when a does not occur
FindAtom(s, a) ==
    IF \E i \in 1..Len(s) : s[i] = a
    THEN CHOOSE i \in 1..Len(s) : s[i] = a /\ \A j \in 1..(i - 1) : s[j] # a
    ELSE 0

\* s.rfind(a), 1-based; 0 when a does not occur
RFindAtom(s, a) ==
    IF \E i \in 1..Len(s) : s[i] = a
    THEN CHOOSE i \in 1..Len(s) : s[i] = a /\ \A j \in (i + 1)..Len(s) : s[j] # a
    ELSE 0

\* first position of any atom of set, 1-based; Len(s) + 1 when none occurs
FindAny(s, set) ==
    IF \E i \in 1..Len(s) : s[i] \in set
    THEN CHOOSE i \in 1..Len(s) : s[i] \in set /\ \A j \in 1..(i - 1) : s[j] \notin set
    ELSE Len(s) + 1

StartsWith(s, p) == Len(s) >= Len(p) /\ SubSeq(s, 1, Len(p)) = p

EndsWith(s, p) == Len(s) >= Len(p) /\ SubSeq(s, Len(s) - Len(p) + 1, Len(s)) = p

-----------------------------------------------------------------------------
(* urllib.parse.urlsplit, as far as validate_url and urljoin read it *)

\* atoms that are not in urllib's scheme_chars (letters, digits, "+", "-", ".")
NonSchemeAtoms == {":", "/", "?", "#", "@", "[", "]", " ", "_"}

\* atoms whose first character is not an ASCII letter
NonAlphaAtoms == NonSchemeAtoms \cup {".", "-", "+", "443", ""}

\* the position of the ":" that ends the scheme, 0 when the url has no scheme
SchemeEnd(u) ==
    LET i == FindAtom(u, ":")
    IN  IF /\ i > 1
           /\ u[1] \notin NonAlphaAtoms
           /\ \A k \in 1..(i - 1) : u[k] \notin NonSchemeAtoms
        THEN i ELSE 0

\* url.split("#", 1) and url.split("?", 1); query and fragment keep their mark
SplitPath(scheme, netloc, tail, invalid) ==
    LET f == FindAtom(tail, "#")
        q == FindAtom(SubSeq(tail, 1, IF f > 0 THEN f - 1 ELSE Len(tail)), "?")
    IN  [scheme |-> scheme,
         netloc |-> netloc,
         path |-> SubSeq(tail, 1, IF q > 0 THEN q - 1 ELSE IF f > 0 THEN f - 1 ELSE Len(tail)),
         query |-> IF q > 0 THEN SubSeq(tail, q, IF f > 0 THEN f - 1 ELSE Len(tail))
                   ELSE <<>>,
         fragment |-> IF f > 0 THEN SubSeq(tail, f, Len(tail)) ELSE <<>>,
         invalid |-> invalid]

\* _splitnetloc(url, 2), and ValueError("Invalid IPv6 URL") for a netloc with
\* one bracket and not the other
SplitNetloc(scheme, after, end) ==
    SplitPath(scheme, SubSeq(after, 1, end - 1), SubSeq(after, end, Len(after)),
              (\E k \in 1..(end - 1) : after[k] = "[")
                # (\E k \in 1..(end - 1) : after[k] = "]"))

SplitRest(scheme, rest) ==
    IF StartsWith(rest, <<"/", "/">>)
    THEN SplitNetloc(scheme, SubSeq(rest, 3, Len(rest)),
                     FindAny(SubSeq(rest, 3, Len(rest)), {"/", "?", "#"}))
    ELSE SplitPath(scheme, <<>>, rest, FALSE)

SplitScheme(u, i) ==
    SplitRest(IF i > 0 THEN LowerStr(SubSeq(u, 1, i - 1)) ELSE <<>>,
              SubSeq(u, i + 1, Len(u)))

urlsplit(u) == SplitScheme(u, SchemeEnd(u))

\* SplitResult.hostname: after the last "@", up to the first ":", lower-cased
hostname(netloc) ==
    LET at == RFindAtom(netloc, "@")
        hostinfo == SubSeq(netloc, at + 1, Len(netloc))
        colon == FindAtom(hostinfo, ":")
        host == IF colon > 0 THEN SubSeq(hostinfo, 1, colon - 1) ELSE hostinfo
    IN  LowerStr(host)

-----------------------------------------------------------------------------
(* validate_url *)

HostIsTrusted(host) ==
    host = <<"jw", ".", "org">> \/ EndsWith(host, <<".", "jw", ".", "org">>)

validate_url(u) ==
    LET parsed == urlsplit(u) IN
    IF parsed.invalid THEN "ValueError"
    ELSE IF parsed.scheme # <<"https">> THEN "ExtractionError"
    ELSE IF HostIsTrusted(hostname(parsed.netloc)) THEN "ok"
    ELSE "ExtractionError"

-----------------------------------------------------------------------------
(* More string operations *)

Whitespace == {" ", "\n", "\t", "LS"}   \* "LS" is U+2028, a line separator

RECURSIVE LStrip(_)
LStrip(s) == IF s # <<>> /\ Head(s) \in Whitespace THEN LStrip(Tail(s)) ELSE s

RECURSIVE RStrip(_)
RStrip(s) ==
    IF s # <<>> /\ s[Len(s)] \in Whitespace THEN RStrip(SubSeq(s, 1, Len(s) - 1)) ELSE s

\* str.strip()
Strip(s) == RStrip(LStrip(s))

\* sep.join(parts)
RECURSIVE Join(_, _)
Join(parts, sep) ==
    IF parts = <<>> THEN <<>>
    ELSE IF Len(parts) = 1 THEN parts[1]
    ELSE parts[1] \o sep \o Join(Tail(parts), sep)

\* str.split(): the maximal runs of non-whitespace atoms
RECURSIVE SplitWords(_)
SplitWords(s) ==
    LET t == LStrip(s)
        n == FindAny(t, Whitespace)
    IN  IF t = <<>> THEN <<>>
        ELSE <<SubSeq(t, 1, n - 1)>> \o SplitWords(SubSeq(t, n, Len(t)))

\* " ".join(text.split())
Normalize(s) == Join(SplitWords(s), <<" ">>)

\* p in s
Contains(s, p) == \E i \in 1..(Len(s) - Len(p) + 1) : SubSeq(s, i, i + Len(p) - 1) = p

ContainsAnyAtom(s, set) == \E i \in 1..Len(s) : s[i] \in set

\* number of characters of an atom; FillN stands for a run of N letters
AtomLen(a) ==
    CASE a \in {" ", "\n", "\t", "LS", ".", ":", "!", "#", "*"} -> 1
      [] a = "1" -> 1
      [] a \in {"No", "pp", "OK"} -> 2
      [] a \in {"No.", "pp.", "THE", "The"} -> 3
      [] a \in {"PLAY", "Play", "play", "Body", "wp24", "WP24", "Note", "Hero"} -> 4
      [] a \in {"Title", "TITLE", "title", "Image", "Story", "audio", "Audio", "14-15"} -> 5
      [] a \in {"AWAKE!", "Awake!", "awake!", "Image:"} -> 6
      [] a \in {"English", "english", "Caption"} -> 7
      [] a \in {"WATCHTOWER", "Watchtower", "watchtower"} -> 10
      [] a = "Fill16" -> 16
      [] a = "Fill21" -> 21
      [] a = "Fill199" -> 199
      [] a = "Fill240" -> 240
      [] a = "Fill251" -> 251

RECURSIVE StrLen(_)
StrLen(s) == IF s = <<>> THEN 0 ELSE AtomLen(Head(s)) + StrLen(Tail(s))

\* str.casefold() for the atoms of body text and attribute values
Casefold(a) ==
    CASE a \in {"PLAY", "Play"} -> "play"
      [] a \in {"TITLE", "Title"} -> "title"
      [] a \in {"THE", "The"} -> "the"
      [] a \in {"AWAKE!", "Awake!"} -> "awake!"
      [] a \in {"WATCHTOWER", "Watchtower"} -> "watchtower"
      [] a = "English" -> "english"
      [] a = "Audio" -> "audio"
      [] a = "Video" -> "video"
      [] a = "Player" -> "player"
      [] a = "Share" -> "share"
      [] a = "Content" -> "content"
      [] OTHER -> a

CasefoldStr(s) == [i \in 1..Len(s) |-> Casefold(s[i])]

\* str.upper()
Upper(a) ==
    CASE a \in {"The", "the"} -> "THE"
      [] a \in {"Watchtower", "watchtower"} -> "WATCHTOWER"
      [] a \in {"Awake!", "awake!"} -> "AWAKE!"
      [] OTHER -> a

UpperStr(s) == [i \in 1..Len(s) |-> Upper(s[i])]

-----------------------------------------------------------------------------
(* The parsed tree (BeautifulSoup): an arena of nodes addressed by identity.
   Markup is a nested value; Parse gives every node its identity in document
   order.  A decomposed node has dead = TRUE: bs4 clears its __dict__, so its
   attrs and parent read as None and it has no contents. *)

NoAttrs == [a \in {} |-> <<>>]

\* markup of an element and of a text node
E(name, attrs, kids) == [name |-> name, attrs |-> attrs, kids |-> kids, text |-> <<>>]
T(text) == [name |-> "#text", attrs |-> NoAttrs, kids |-> <<>>, text |-> text]

Cleared == [name |-> "", attrs |-> NoAttrs, kids |-> <<>>, text |-> <<>>,
            parent |-> 0, dead |-> TRUE]

RECURSIVE BuildNode(_, _, _), BuildKids(_, _, _)
BuildKids(ks, parent, next) ==
    IF ks = <<>> THEN [arena |-> <<>>, ids |-> <<>>, next |-> next]
    ELSE LET first == BuildNode(Head(ks), parent, next)
             rest == BuildKids(Tail(ks), parent, first.next)
         IN  [arena |-> first.arena \o rest.arena,
              ids |-> <<next>> \o rest.ids,
              next |-> rest.next]
BuildNode(t, parent, id) ==
    LET sub == BuildKids(t.kids, id, id + 1)
    IN  [arena |-> <<[name |-> t.name, attrs |-> t.attrs, kids |-> sub.ids,
                      text |-> t.text, parent |-> parent, dead |-> FALSE]>>
                   \o sub.arena,
         next |-> sub.next]

\* BeautifulSoup(page, "lxml"): node 1 is the root of the markup
Parse(markup) == BuildNode(markup, 0, 1).arena

\* Tag.get(key): None when the attribute is absent
Get(node, key) == IF key \in DOMAIN node.attrs THEN node.attrs[key] ELSE None

IsTag(d, id) == ~d[id].dead /\ d[id].name # "#text"

RECURSIVE DescSeq(_, _)
DescSeq(d, ids) ==
    IF ids = <<>> THEN <<>>
    ELSE <<Head(ids)>> \o DescSeq(d, d[Head(ids)].kids) \o DescSeq(d, Tail(ids))

\* Tag.descendants, in document order
Descendants(d, id) == DescSeq(d, d[id].kids)

SeqRange(s) == {s[i] : i \in 1..Len(s)}

\* Tag.find_all(names)
find_all(d, root, names) ==
    SelectSeq(Descendants(d, root), LAMBDA i : IsTag(d, i) /\ d[i].name \in names)

\* Tag.find_all(True)
find_all_tags(d, root) == SelectSeq(Descendants(d, root), LAMBDA i : IsTag(d, i))

\* Tag.find_all(attrs={key: True})
find_all_attr(d, root, key) ==
    SelectSeq(Descendants(d, root), LAMBDA i : IsTag(d, i) /\ key \in DOMAIN d[i].attrs)

\* Tag.find(name): the first match, 0 when there is none
find(d, root, names) ==
    LET all == find_all(d, root, names) IN IF all = <<>> THEN 0 ELSE all[1]

\* Tag.get_text(" ", strip=True)
get_text(d, id) ==
    LET texts == SelectSeq(Descendants(d, id), LAMBDA i : d[i].name = "#text")
        stripped == [k \in 1..Len(texts) |-> Strip(d[texts[k]].text)]
    IN  Join(SelectSeq(stripped, LAMBDA s : s # <<>>), <<" ">>)

RemoveId(ids, id) == SelectSeq(ids, LAMBDA k : k # id)

\* PageElement.extract(): unlink the node from its parent
Extract(d, id) ==
    LET p == d[id].parent IN
    [n \in DOMAIN d |->
        IF n = id THEN [d[n] EXCEPT !.parent = 0]
        ELSE IF n = p THEN [d[n] EXCEPT !.kids = RemoveId(@, id)]
        ELSE d[n]]

\* Tag.decompose(): unlink the node, clear it and every node below it
decompose(d, id) ==
    LET sub == {id} \cup SeqRange(Descendants(d, id))
        p == d[id].parent
    IN  [n \in DOMAIN d |->
            IF n \in sub THEN Cleared
            ELSE IF n = p THEN [d[n] EXCEPT !.kids = RemoveId(@, id)]
            ELSE d[n]]

\* target.insert_after(new): new leaves its place and becomes the next sibling
\* of target (the caller guarantees target has a parent)
insert_after(d, target, new) ==
    LET d1 == Extract(d, new)
        p == d1[target].parent
        ks == d1[p].kids
        at == FindAtom(ks, target)
    IN  [n \in DOMAIN d1 |->
            IF n = new THEN [d1[n] EXCEPT !.parent = p]
            ELSE IF n = p
                 THEN [d1[n] EXCEPT !.kids = SubSeq(ks, 1, at) \o <<new>>
                                             \o SubSeq(ks, at + 1, Len(ks))]
            ELSE d1[n]]

\* the node is n itself or below it (_contains_node)
_contains_node(d, parent, node) ==
    IF node = 0 THEN FALSE
    ELSE parent = node \/ node \in SeqRange(Descendants(d, parent))

\* Tag.find_parent(name) is not None
HasAncestor(d, id, name) ==
    LET RECURSIVE Up(_)
        Up(n) == IF n = 0 THEN FALSE
                 ELSE IF d[n].name = name THEN TRUE
                 ELSE Up(d[n].parent)
    IN  Up(d[id].parent)

-----------------------------------------------------------------------------
(* _remove_unwanted_tags *)

RECURSIVE DecomposeAll(_, _)
DecomposeAll(d, ids) ==
    IF ids = <<>> THEN d ELSE DecomposeAll(decompose(d, Head(ids)), Tail(ids))

UnwantedTags ==
    {"script", "style", "noscript", "nav", "footer", "aside", "svg", "form", "button"}

\* tag.find_parent("article") or tag.find_parent("main")
HeaderIsContentMutant(d, id) == HasAncestor(d, id, "article")

HeaderIsContent(d, id) == HasAncestor(d, id, "article") \/ HasAncestor(d, id, "main")

RECURSIVE DropHeaders(_, _)
DropHeaders(d, ids) ==
    IF ids = <<>> THEN d
    ELSE IF HeaderIsContent(d, Head(ids))
         THEN DropHeaders(d, Tail(ids))
         ELSE DropHeaders(decompose(d, Head(ids)), Tail(ids))

_remove_unwanted_tags(d) ==
    LET d1 == DecomposeAll(d, find_all(d, 1, UnwantedTags))
    IN  DropHeaders(d1, find_all(d1, 1, {"header"}))

-----------------------------------------------------------------------------
(* _select_container, _readability_fallback *)

MIN_TEXT_LEN == 200

KEYWORD_RE == {"article", "content", "pub", "body"}

\* " ".join(filter(None, [tag.get("id", ""), " ".join(tag.get("class", []))]))
ClassId(node) ==
    Join(SelectSeq(<<Get(node, "id"), Get(node, "class")>>, LAMBDA s : s # <<>>), <<" ">>)

\* the loop over the divs: the first div of greatest text length among the matches
RECURSIVE BestDiv(_, _, _, _)
BestDiv(d, divs, best, best_len) ==
    IF divs = <<>> THEN [best |-> best, best_len |-> best_len]
    ELSE LET div == Head(divs)
             text_len == StrLen(get_text(d, div))
         IN  IF ~ContainsAnyAtom(CasefoldStr(ClassId(d[div])), KEYWORD_RE)
             THEN BestDiv(d, Tail(divs), best, best_len)
             ELSE IF text_len > best_len
                  THEN BestDiv(d, Tail(divs), div, text_len)
                  ELSE BestDiv(d, Tail(divs), best, best_len)

\* if best and best_len >= MIN_TEXT_LEN
AcceptedMutant(best, best_len) == best # 0 /\ best_len > MIN_TEXT_LEN

Accepted(best, best_len) == best # 0 /\ best_len >= MIN_TEXT_LEN

\* 0 stands for None
_select_container(d) ==
    LET article == find(d, 1, {"article"})
        main == find(d, 1, {"main"})
        r == BestDiv(d, find_all(d, 1, {"div"}), 0, 0)
    IN  IF article # 0 THEN article
        ELSE IF main # 0 THEN main
        ELSE IF Accepted(r.best, r.best_len) THEN r.best
        ELSE 0

\* the element markups of a markup, in document order
RECURSIVE MarkupElements(_), MarkupElementsOf(_)
MarkupElementsOf(ks) ==
    IF ks = <<>> THEN <<>>
    ELSE MarkupElements(Head(ks)) \o MarkupElementsOf(Tail(ks))
MarkupElements(m) ==
    IF m.name = "#text" THEN <<>> ELSE <<m>> \o MarkupElementsOf(m.kids)

\* Document(page).summary(): the third-party scorer returns one element of the
\* page; which one is its choice
SummaryChoices(markup) ==
    {m \in SeqRange(MarkupElements(markup)) : m.name \in {"body", "div"}}

\* Document(page).title(): the <title> text, "[no-title]" without one
ReadabilityTitle(markup) ==
    LET titles == SelectSeq(MarkupElements(markup), LAMBDA m : m.name = "title")
    IN  IF titles = <<>> \/ titles[1].kids = <<>> THEN <<"[no-title]">>
        ELSE Strip(titles[1].kids[1].text)

\* the summary is parsed into a tree of its own: new nodes, after those of the
\* soup, under a root without a parent; the root is that root (its body)
_readability_fallback(d, summary) ==
    LET body == E("body", NoAttrs, <<summary>>)
        first == Len(d) + 1
    IN  [d |-> d \o BuildNode(body, 0, first).arena, container |-> first]

-----------------------------------------------------------------------------
(* _extract_title, _find_title_node *)

\* Tag.string: the single text child, through single element children
RECURSIVE TagString(_, _)
TagString(d, id) ==
    IF Len(d[id].kids) # 1 THEN None
    ELSE LET k == d[id].kids[1]
         IN  IF d[k].name = "#text" THEN d[k].text ELSE TagString(d, k)

_extract_title(d, root, fallback) ==
    LET h1 == find(d, root, {"h1"})
        h1_text == IF h1 # 0 THEN get_text(d, h1) ELSE None
        soup_title == find(d, 1, {"title"})
        title_text == IF soup_title # 0 THEN Strip(TagString(d, soup_title)) ELSE None
    IN  IF h1_text # None THEN h1_text
        ELSE IF title_text # None THEN title_text
        ELSE Strip(fallback)

TitleNodeTags == {"h1", "h2", "h3", "h4", "h5", "h6", "p", "div", "span"}

\* 0 stands for None
_find_title_node(d, root, ttl) ==
    IF ttl = None THEN 0
    ELSE LET hits == SelectSeq(find_all(d, root, TitleNodeTags),
                               LAMBDA t : get_text(d, t) = ttl)
         IN  IF hits = <<>> THEN 0 ELSE hits[1]

-----------------------------------------------------------------------------
(* _strip_player_controls.  Each pass walks a list made before it starts, so
   the list can hold nodes that an earlier step of the same pass decomposed.
   Tag.get on such a node reads attrs, which is None: AttributeError.  The
   last pass skips them (tag.attrs is None). *)

control_needles == {"play", "audio", "video"}

\* _attr_contains
_attr_contains(node, attr) ==
    Get(node, attr) # None /\ ContainsAnyAtom(CasefoldStr(Get(node, attr)), control_needles)

\* _text_is_play
_text_is_play(d, id) == CasefoldStr(get_text(d, id)) = <<"play">>

\* the aria-label pass and the ttl pass
RECURSIVE AttrPass(_, _, _)
AttrPass(d, ids, attr) ==
    IF ids = <<>> THEN [d |-> d, raised |-> FALSE]
    ELSE IF d[Head(ids)].dead THEN [d |-> d, raised |-> TRUE]
    ELSE IF _attr_contains(d[Head(ids)], attr)
         THEN AttrPass(decompose(d, Head(ids)), Tail(ids), attr)
         ELSE AttrPass(d, Tail(ids), attr)

RECURSIVE RolePass(_, _)
RolePass(d, ids) ==
    IF ids = <<>> THEN [d |-> d, raised |-> FALSE]
    ELSE IF d[Head(ids)].dead THEN [d |-> d, raised |-> TRUE]
    ELSE IF /\ CasefoldStr(Get(d[Head(ids)], "role")) \in {<<"button">>, <<"link">>}
            /\ _text_is_play(d, Head(ids))
         THEN RolePass(decompose(d, Head(ids)), Tail(ids))
         ELSE RolePass(d, Tail(ids))

PLAYER_CLASS_RE == {"player", "audio", "video", "jwplayer", "vjs", "media", "play"}

PlayerTextLimit == 20

MatchesPlayerClass(node) ==
    \/ ContainsAnyAtom(CasefoldStr(Get(node, "class")), PLAYER_CLASS_RE)
    \/ ContainsAnyAtom(CasefoldStr(Get(node, "id")), PLAYER_CLASS_RE)

IsShortControl(d, tag) == StrLen(get_text(d, tag)) <= PlayerTextLimit

RECURSIVE ClassPass(_, _)
ClassPass(d, ids) ==
    IF ids = <<>> THEN d
    ELSE LET tag == Head(ids) IN
         IF d[tag].dead THEN ClassPass(d, Tail(ids))
         ELSE IF ~MatchesPlayerClass(d[tag]) THEN ClassPass(d, Tail(ids))
         ELSE IF find(d, tag, {"img"}) # 0 \/ find(d, tag, {"picture"}) # 0
              THEN ClassPass(d, Tail(ids))
         ELSE IF IsShortControl(d, tag) THEN ClassPass(decompose(d, tag), Tail(ids))
         ELSE ClassPass(d, Tail(ids))

\* the tree after the three passes that precede the id/class pass
PlayerPasses123(d, root) ==
    LET d1 == DecomposeAll(d, find_all(d, root, {"audio", "video", "source", "track"}))
        r2 == AttrPass(d1, find_all_attr(d1, root, "aria-label"), "aria-label")
        r3 == IF r2.raised THEN r2
              ELSE AttrPass(r2.d, find_all_attr(r2.d, root, "title"), "title")
    IN  IF r3.raised THEN r3
        ELSE RolePass(r3.d, find_all_attr(r3.d, root, "role"))

_strip_player_controls(d, root) ==
    LET r == PlayerPasses123(d, root)
    IN  IF r.raised THEN r
        ELSE [d |-> ClassPass(r.d, find_all_tags(r.d, root)), raised |-> FALSE]

-----------------------------------------------------------------------------
(* _strip_metadata_blocks *)

MetadataCandidates ==
    {"section", "div", "p", "ul", "ol", "li", "footer", "aside",
     "h2", "h3", "h4", "h5", "h6"}

METADATA_CLASS_RE ==
    {"publication", "issue", "magazine", "context", "related", "footer",
     "language", "promo", "share"}

ShortLimit == 250

\* ISSUE_RE: wp and two digits between word boundaries, any case
ISSUE_RE == {"wp24", "WP24"}

HasIssueMarker(normalized) ==
    \/ Contains(normalized, <<"No.">>)
    \/ Contains(normalized, <<"pp.">>)
    \/ Contains(normalized, <<"pp", " ">>)

\* the four rules, for a block of this normalized text
IsMetadata(node, normalized, ttl) ==
    LET lowered == CasefoldStr(normalized)
        upper == UpperStr(normalized)
        class_id == ClassId(node)
    IN  \/ class_id # <<>> /\ ContainsAnyAtom(CasefoldStr(class_id), METADATA_CLASS_RE)
        \/ Contains(upper, <<"THE", " ", "WATCHTOWER">>) \/ Contains(upper, <<"AWAKE!">>)
        \/ ContainsAnyAtom(normalized, ISSUE_RE) /\ HasIssueMarker(normalized)
        \/ /\ ttl # None
           /\ Contains(lowered, <<"english">>)
           /\ Contains(lowered, CasefoldStr(ttl))

\* is_short = len(normalized) <= 250
IsShortMutant(normalized) == TRUE

IsShort(normalized) == StrLen(normalized) <= ShortLimit

\* the body of the loop, for one candidate
ShouldStrip(d, tag, ttl, tnode) ==
    LET text == get_text(d, tag)
        normalized == Normalize(text)
    IN  /\ d[tag].parent # 0
        /\ ~_contains_node(d, tag, tnode)
        /\ text # <<>>
        /\ IsShort(normalized)
        /\ IsMetadata(d[tag], normalized, ttl)

RECURSIVE MetadataLoop(_, _, _, _)
MetadataLoop(d, ids, ttl, tnode) ==
    IF ids = <<>> THEN d
    ELSE IF ShouldStrip(d, Head(ids), ttl, tnode)
         THEN MetadataLoop(decompose(d, Head(ids)), Tail(ids), ttl, tnode)
         ELSE MetadataLoop(d, Tail(ids), ttl, tnode)

_strip_metadata_blocks(d, root, ttl, tnode) ==
    MetadataLoop(d, find_all(d, root, MetadataCandidates), ttl, tnode)

-----------------------------------------------------------------------------
(* urllib.parse.urljoin.  The sources of the model hold no "[" or "]", so the
   ValueError of urlsplit does not arise here. *)

uses_relative == {<<>>, <<"http">>, <<"https">>, <<"ftp">>, <<"file">>}

\* s.split("/"): the segments between the slashes
RECURSIVE SplitSlash(_)
SplitSlash(s) ==
    LET i == FindAtom(s, "/")
    IN  IF i = 0 THEN <<s>>
        ELSE <<SubSeq(s, 1, i - 1)>> \o SplitSlash(SubSeq(s, i + 1, Len(s)))

\* the loop that resolves "." and ".." segments
RECURSIVE ResolveDots(_, _)
ResolveDots(segments, resolved) ==
    IF segments = <<>> THEN resolved
    ELSE LET seg == Head(segments) IN
         IF seg = <<"..">>
         THEN ResolveDots(Tail(segments),
                          IF resolved = <<>> THEN <<>>
                          ELSE SubSeq(resolved, 1, Len(resolved) - 1))
         ELSE IF seg = <<".">> THEN ResolveDots(Tail(segments), resolved)
         ELSE ResolveDots(Tail(segments), Append(resolved, seg))

\* urlunparse: query and fragment keep their "?" and "#"
urlunparse(scheme, netloc, path, query, fragment) ==
    LET rooted == IF netloc # <<>> /\ path # <<>> /\ Head(path) # "/"
                  THEN <<"/">> \o path ELSE path
        hier == IF netloc # <<>> THEN <<"/", "/">> \o netloc \o rooted ELSE path
    IN  (IF scheme # <<>> THEN scheme \o <<":">> ELSE <<>>) \o hier \o query \o fragment

\* base_parts: the segments of the base path without the last one
BaseParts(base_split) ==
    IF base_split[Len(base_split)] # <<>>
    THEN SubSeq(base_split, 1, Len(base_split) - 1)
    ELSE base_split

\* segments[1:-1] = filter(None, segments[1:-1])
FilterMiddle(joined) ==
    IF Len(joined) <= 2 THEN joined
    ELSE <<joined[1]>>
         \o SelectSeq(SubSeq(joined, 2, Len(joined) - 1), LAMBDA g : g # <<>>)
         \o <<joined[Len(joined)]>>

Segments(bpath, path) ==
    IF Head(path) = "/" THEN SplitSlash(path)
    ELSE FilterMiddle(BaseParts(SplitSlash(bpath)) \o SplitSlash(path))

\* "/".join(resolved_path) or "/"
ResolvedPath(segments, resolved) ==
    LET closed == IF segments[Len(segments)] \in {<<".">>, <<"..">>}
                  THEN Append(resolved, <<>>) ELSE resolved
    IN  IF Join(closed, <<"/">>) = <<>> THEN <<"/">> ELSE Join(closed, <<"/">>)

MergePaths(segments) == ResolvedPath(segments, ResolveDots(segments, <<>>))

JoinParsed(u, b, r, scheme) ==
    IF scheme # b.scheme \/ scheme \notin uses_relative THEN u
    ELSE IF r.netloc # <<>>
         THEN urlunparse(scheme, r.netloc, r.path, r.query, r.fragment)
    ELSE IF r.path = <<>>
         THEN urlunparse(scheme, b.netloc, b.path,
                         IF r.query = <<>> THEN b.query ELSE r.query, r.fragment)
    ELSE urlunparse(scheme, b.netloc, MergePaths(Segments(b.path, r.path)),
                    r.query, r.fragment)

\* urlparse(url, bscheme): the scheme of the base where the url has none
JoinSplit(u, b, r) == JoinParsed(u, b, r, IF r.scheme = <<>> THEN b.scheme ELSE r.scheme)

urljoin(base, u) ==
    IF base = <<>> THEN u
    ELSE IF u = <<>> THEN base
    ELSE JoinSplit(u, urlsplit(base), urlsplit(u))

\* a URL with a scheme
IsAbsoluteUrl(u) == urlsplit(u).scheme # <<>>

-----------------------------------------------------------------------------
(* _best_src_from_srcset *)

\* s.split(","): the parts between the commas
RECURSIVE SplitComma(_)
SplitComma(s) ==
    LET i == FindAtom(s, ",")
    IN  IF i = 0 THEN <<s>>
        ELSE <<SubSeq(s, 1, i - 1)>> \o SplitComma(SubSeq(s, i + 1, Len(s)))

\* a float: a number of halves (3 is 1.5), or nan
Float(halves) == [nan |-> FALSE, halves |-> halves]

NaN == [nan |-> TRUE, halves |-> 0]

\* float(descriptor[:-1]) for a descriptor that ends in w or x; 0.0 where
\* float() raises ValueError or the suffix is missing; float("nan") is nan
DescriptorScore(descriptor) ==
    CASE descriptor = <<"1x">> -> Float(2)
      [] descriptor = <<"1.5x">> -> Float(3)
      [] descriptor = <<"2x">> -> Float(4)
      [] descriptor = <<"2w">> -> Float(4)
      [] descriptor = <<"3x">> -> Float(6)
      [] descriptor = <<"3w">> -> Float(6)
      [] descriptor = <<"-1x">> -> Float(-2)
      [] descriptor = <<"nanx">> -> NaN
      [] OTHER -> Float(0)

\* candidates.append((score, index, url)) for the non-empty parts
RECURSIVE SrcsetCandidates(_, _)
SrcsetCandidates(parts, index) ==
    IF parts = <<>> THEN <<>>
    ELSE LET pieces == SplitWords(Head(parts))
             score == IF Len(pieces) > 1 THEN DescriptorScore(pieces[2]) ELSE Float(0)
         IN  (IF pieces = <<>> THEN <<>>
              ELSE <<[score |-> score, index |-> index, url |-> pieces[1]]>>)
             \o SrcsetCandidates(Tail(parts), index + 1)

\* (score, index) < (score, index) of the sort keys: the first items that are
\* not equal decide, and both == and < of floats are false when one is nan
KeyLess(x, y) ==
    LET comparable == ~x.score.nan /\ ~y.score.nan
    IN  IF comparable /\ x.score.halves = y.score.halves THEN x.index < y.index
        ELSE comparable /\ x.score.halves < y.score.halves

\* list.sort() of a short list: the run the list starts with, reversed when
\* it descends, then binary insertion of the elements after it
RECURSIVE RunEnd(_, _, _)
RunEnd(a, i, descending) ==
    IF i > Len(a) THEN Len(a)
    ELSE IF KeyLess(a[i], a[i - 1]) = descending THEN RunEnd(a, i + 1, descending)
    ELSE i - 1

RECURSIVE InsertAt(_, _, _, _)
InsertAt(a, pivot, l, r) ==
    IF l >= r THEN l
    ELSE IF KeyLess(pivot, a[l + (r - l) \div 2])
         THEN InsertAt(a, pivot, l, l + (r - l) \div 2)
         ELSE InsertAt(a, pivot, l + (r - l) \div 2 + 1, r)

RECURSIVE binarysort(_, _)
binarysort(a, start) ==
    IF start > Len(a) THEN a
    ELSE binarysort(SubSeq(a, 1, InsertAt(a, a[start], 1, start) - 1)
                        \o <<a[start]>>
                        \o SubSeq(a, InsertAt(a, a[start], 1, start), start - 1)
                        \o SubSeq(a, start + 1, Len(a)),
                    start + 1)

ListSort(a) ==
    LET descending == Len(a) > 1 /\ KeyLess(a[2], a[1])
        n == IF Len(a) < 2 THEN Len(a) ELSE RunEnd(a, 3, descending)
        run == IF descending THEN [i \in 1..n |-> a[n + 1 - i]] ELSE SubSeq(a, 1, n)
    IN  binarysort(run \o SubSeq(a, n + 1, Len(a)), n + 1)

\* candidates.sort(key=lambda item: (item[0], item[1])); candidates[-1][2]
_best_src_from_srcset(srcset) ==
    LET candidates == SrcsetCandidates(SplitComma(srcset), 0)
    IN  IF candidates = <<>> THEN None
        ELSE ListSort(candidates)[Len(candidates)].url

-----------------------------------------------------------------------------
(* _normalize_img_tag, _normalize_figures, _normalize_links, _normalize_images *)

AlternateSrcAttrs ==
    <<"data-original", "data-largest", "data-large", "data-medium", "data-small",
      "data-smallest">>

RedundantImgAttrs ==
    {"data-src", "data-srcset", "data-original", "data-largest", "data-large",
     "data-medium", "data-small", "data-smallest", "srcset"}

\* a or b
Or(a, b) == IF a # None THEN a ELSE b

\* the first alternate attribute with a value
FirstAlternate(node) ==
    LET set == SelectSeq(AlternateSrcAttrs, LAMBDA a : Get(node, a) # None)
    IN  IF set = <<>> THEN None ELSE Get(node, set[1])

\* the source _normalize_img_tag settles on, None when the tag has none
ResolveSrc(node) ==
    LET direct == Or(Get(node, "data-src"), Get(node, "src"))
        alternate == IF direct # None THEN direct ELSE FirstAlternate(node)
        srcset == Or(Get(node, "srcset"), Get(node, "data-srcset"))
    IN  IF alternate # None THEN alternate
        ELSE IF srcset # None THEN _best_src_from_srcset(srcset)
        ELSE None

\* abs_src = urljoin(base_url, src)
AbsSrcMutant(base_url, src) == src

AbsSrc(base_url, src) == urljoin(base_url, src)

SetAttr(node, key, value) ==
    [node EXCEPT !.attrs = [k \in DOMAIN node.attrs \cup {key} |->
                               IF k = key THEN value ELSE node.attrs[k]]]

DelAttrs(node, keys) ==
    [node EXCEPT !.attrs = [k \in DOMAIN node.attrs \ keys |-> node.attrs[k]]]

\* returns the tree and the absolute source, None when the image was dropped
_normalize_img_tag(d, img, base_url) ==
    LET src == ResolveSrc(d[img])
        abs_src == AbsSrc(base_url, src)
    IN  IF src = None THEN [d |-> decompose(d, img), src |-> None]
        ELSE [d |-> [d EXCEPT ![img] = DelAttrs(SetAttr(@, "src", abs_src),
                                                RedundantImgAttrs)],
              src |-> abs_src]

\* soup.new_tag("p"), soup.new_tag("em"), em_tag.string = caption_text,
\* p_tag.append(em_tag), img.insert_after(p_tag)
AddCaption(d, img, caption_text) ==
    LET p_tag == Len(d) + 1
        em_tag == Len(d) + 2
        string == Len(d) + 3
        fresh == <<[name |-> "p", attrs |-> NoAttrs, kids |-> <<em_tag>>, text |-> <<>>,
                    parent |-> 0, dead |-> FALSE],
                   [name |-> "em", attrs |-> NoAttrs, kids |-> <<string>>, text |-> <<>>,
                    parent |-> p_tag, dead |-> FALSE],
                   [name |-> "#text", attrs |-> NoAttrs, kids |-> <<>>,
                    text |-> caption_text, parent |-> em_tag, dead |-> FALSE]>>
    IN  insert_after(d \o fresh, img, p_tag)

\* the body of the loop of _normalize_figures, for one figure
FlattenFigure(d, figure, base_url) ==
    LET img == find(d, figure, {"img"})
        r == _normalize_img_tag(d, img, base_url)
        figcaption == find(r.d, figure, {"figcaption"})
        caption_text == IF figcaption # 0 THEN get_text(r.d, figcaption) ELSE None
        moved == insert_after(r.d, figure, img)
        captioned == IF caption_text # None THEN AddCaption(moved, img, caption_text)
                     ELSE moved
    IN  IF img = 0 THEN decompose(d, figure)
        ELSE IF r.src = None THEN decompose(r.d, figure)
        ELSE decompose(captioned, figure)

RECURSIVE FigureLoop(_, _, _)
FigureLoop(d, figures, base_url) ==
    IF figures = <<>> THEN d
    ELSE FigureLoop(FlattenFigure(d, Head(figures), base_url), Tail(figures), base_url)

_normalize_figures(d, root, base_url) ==
    FigureLoop(d, find_all(d, root, {"figure"}), base_url)

RECURSIVE LinkLoop(_, _, _)
LinkLoop(d, anchors, base_url) ==
    IF anchors = <<>> THEN d
    ELSE LET a == Head(anchors)
             href == Get(d[a], "href")
         IN  IF href = None THEN LinkLoop(d, Tail(anchors), base_url)
             ELSE LinkLoop([d EXCEPT ![a] = SetAttr(@, "href", urljoin(base_url, href))],
                           Tail(anchors), base_url)

_normalize_links(d, root, base_url) ==
    LinkLoop(d, find_all(d, root, {"a"}), base_url)

RECURSIVE ImageLoop(_, _, _)
ImageLoop(d, imgs, base_url) ==
    IF imgs = <<>> THEN d
    ELSE ImageLoop(_normalize_img_tag(d, Head(imgs), base_url).d, Tail(imgs), base_url)

_normalize_images(d, root, base_url) ==
    ImageLoop(d, find_all(d, root, {"img"}), base_url)

-----------------------------------------------------------------------------
(* _collect_images *)

\* Tag.find_next_sibling(): the next sibling that is a tag, 0 when none
find_next_sibling(d, id) ==
    LET ks == d[d[id].parent].kids
        at == FindAtom(ks, id)
        later == SelectSeq(SubSeq(ks, at + 1, Len(ks)), LAMBDA k : IsTag(d, k))
    IN  IF later = <<>> THEN 0 ELSE later[1]

\* the caption _collect_images reads off the next sibling
CaptionOf(d, img) ==
    LET next_sibling == find_next_sibling(d, img)
        em == IF next_sibling # 0 /\ d[next_sibling].name = "p"
              THEN find(d, next_sibling, {"em"}) ELSE 0
        em_text == IF em # 0 THEN get_text(d, em) ELSE None
    IN  IF em_text # None /\ em_text = get_text(d, next_sibling) THEN em_text ELSE None

\* the entries of the with-src images of the container, in document order
_collect_images(d, root) ==
    LET imgs == SelectSeq(find_all(d, root, {"img"}),
                          LAMBDA i : Get(d[i], "src") # None)
    IN  [k \in 1..Len(imgs) |->
            [url |-> Get(d[imgs[k]], "src"),
             alt |-> Strip(Get(d[imgs[k]], "alt")),
             caption |-> CaptionOf(d, imgs[k])]]

-----------------------------------------------------------------------------
(* _html_to_markdown: markdownify(str(container), heading_style="ATX",
   bullets="-"), runs of three or more newlines collapsed to two, stripped *)

\* runs of spaces, tabs and newlines inside a text become one space
RECURSIVE CollapseSpaces(_)
CollapseSpaces(s) ==
    IF s = <<>> THEN <<>>
    ELSE IF Head(s) \in {" ", "\t", "\n"}
         THEN <<" ">> \o CollapseSpaces(LStrip(s))
         ELSE <<Head(s)>> \o CollapseSpaces(Tail(s))

HeadingMarks ==
    [h1 |-> "#", h2 |-> "##", h3 |-> "###", h4 |-> "####", h5 |-> "#####", h6 |-> "######"]

BlockTags ==
    {"p", "div", "section", "header", "article", "main", "body", "ul", "ol", "figure"}

\* f"![{alt}]({url})"
ImageMarkdown(alt, src) == <<"![">> \o alt \o <<"](">> \o src \o <<")">>

\* markdownify's conversion of one node; images inside a heading give their alt
RECURSIVE Markdownify(_, _, _), MarkdownifyAll(_, _, _)
MarkdownifyAll(d, ids, inHeading) ==
    IF ids = <<>> THEN <<>>
    ELSE Markdownify(d, Head(ids), inHeading) \o MarkdownifyAll(d, Tail(ids), inHeading)
Markdownify(d, id, inHeading) ==
    LET node == d[id]
        inner == MarkdownifyAll(d, node.kids, inHeading)
    IN  IF node.name = "#text" THEN CollapseSpaces(node.text)
        ELSE IF node.name = "img"
             THEN IF inHeading THEN Get(node, "alt")
                  ELSE ImageMarkdown(Get(node, "alt"), Get(node, "src"))
        ELSE IF node.name = "em"
             THEN IF Strip(inner) = <<>> THEN <<>> ELSE <<"*">> \o Strip(inner) \o <<"*">>
        ELSE IF node.name = "a" /\ Get(node, "href") # None
             THEN <<"[">> \o inner \o <<"](">> \o Get(node, "href") \o <<")">>
        ELSE IF node.name \in DOMAIN HeadingMarks
             THEN LET text == Strip(MarkdownifyAll(d, node.kids, TRUE))
                  IN  IF text = <<>> THEN <<>>
                      ELSE <<"\n", "\n", HeadingMarks[node.name], " ">> \o text
                           \o <<"\n", "\n">>
        ELSE IF node.name = "li" THEN <<"-", " ">> \o Strip(inner) \o <<"\n">>
        ELSE IF node.name \in BlockTags THEN <<"\n", "\n">> \o Strip(inner) \o <<"\n", "\n">>
        ELSE inner

\* re.sub(r"\n{3,}", "\n\n", md)
RECURSIVE CollapseNewlines(_)
CollapseNewlines(s) ==
    IF s = <<>> THEN <<>>
    ELSE IF StartsWith(s, <<"\n", "\n", "\n">>) THEN CollapseNewlines(Tail(s))
    ELSE <<Head(s)>> \o CollapseNewlines(Tail(s))

_html_to_markdown(d, root) ==
    Strip(CollapseNewlines(Markdownify(d, root, FALSE)))

-----------------------------------------------------------------------------
(* _ensure_markdown_title, _insert_fallback_image *)

\* the characters str.splitlines() breaks a line at
LineBreaks == {"\n", "LS"}

\* str.splitlines()
RECURSIVE splitlines(_)
splitlines(s) ==
    LET i == FindAny(s, LineBreaks)
    IN  IF s = <<>> THEN <<>>
        ELSE IF i > Len(s) THEN <<s>>
        ELSE <<SubSeq(s, 1, i - 1)>> \o splitlines(SubSeq(s, i + 1, Len(s)))

\* index of the first line with line.strip(), 0 when every line is blank
FirstNonBlank(lines) ==
    IF \E i \in 1..Len(lines) : Strip(lines[i]) # <<>>
    THEN CHOOSE i \in 1..Len(lines) :
            Strip(lines[i]) # <<>> /\ \A j \in 1..(i - 1) : Strip(lines[j]) = <<>>
    ELSE 0

\* f"# {ttl}"
Heading(ttl) == <<"#", " ">> \o ttl

\* stripped == ttl
LineIsTitleMutant(stripped, ttl) == StartsWith(stripped, ttl)

LineIsTitle(stripped, ttl) == stripped = ttl

_ensure_markdown_title(md, ttl) ==
    LET lines == splitlines(md)
        idx == FirstNonBlank(lines)
        stripped == Strip(lines[idx])
    IN  IF ttl = None THEN md
        ELSE IF idx = 0 THEN md
        ELSE IF stripped = Heading(ttl) THEN md
        ELSE IF LineIsTitle(stripped, ttl)
             THEN Join([lines EXCEPT ![idx] = Heading(ttl)], <<"\n">>)
        ELSE md

\* True when the image goes after the line at idx
AfterHeadingMutant(line) == FALSE

AfterHeading(line) == StartsWith(line, <<"#", " ">>)

_insert_fallback_image(md, image) ==
    LET image_md == ImageMarkdown(image.alt, image.url)
        lines == splitlines(md)
        idx == FirstNonBlank(lines)
        head == Join(SubSeq(lines, 1, idx), <<"\n">>)
        tail == Strip(Join(SubSeq(lines, idx + 1, Len(lines)), <<"\n">>))
    IN  IF Strip(md) = <<>> THEN image_md
        ELSE IF idx # 0 /\ AfterHeading(lines[idx])
             THEN IF tail # <<>>
                  THEN head \o <<"\n", "\n">> \o image_md \o <<"\n", "\n">> \o tail
                  ELSE head \o <<"\n", "\n">> \o image_md
        ELSE image_md \o <<"\n", "\n">> \o md

-----------------------------------------------------------------------------
(* _extract_fallback_image and its five sources, read off the page as parsed
   and, for the CDN scan, off the raw text *)

MetaImageKeys ==
    <<<<"property", <<"og:image">>>>, <<"property", <<"og:image:secure_url">>>>,
      <<"name", <<"twitter:image">>>>, <<"name", <<"twitter:image:src">>>>,
      <<"itemprop", <<"image">>>>>>

\* soup.find("meta", attrs={attr: key}) and its content, for the keys in order
RECURSIVE MetaImage(_, _)
MetaImage(d, keys) ==
    IF keys = <<>> THEN None
    ELSE LET hits == SelectSeq(find_all(d, 1, {"meta"}),
                               LAMBDA m : Get(d[m], Head(keys)[1]) = Head(keys)[2])
         IN  IF hits # <<>> /\ Get(d[hits[1]], "content") # None
             THEN Strip(Get(d[hits[1]], "content"))
             ELSE MetaImage(d, Tail(keys))

_extract_meta_image(d) == MetaImage(d, MetaImageKeys)

\* json.loads and _extract_jsonld_image_value for the payloads of the model:
\* {"image": "<url>"} gives the url; anything else is malformed or has no image
JsonLdImageValue(string) ==
    IF Len(string) > 2 /\ Head(string) = "{image:" /\ string[Len(string)] = "}"
    THEN SubSeq(string, 2, Len(string) - 1)
    ELSE None

RECURSIVE JsonLdLoop(_, _)
JsonLdLoop(d, scripts) ==
    IF scripts = <<>> THEN None
    ELSE LET string == TagString(d, Head(scripts))
             image == IF string = None THEN None ELSE JsonLdImageValue(string)
         IN  IF image # None THEN image ELSE JsonLdLoop(d, Tail(scripts))

_extract_jsonld_image(d) ==
    JsonLdLoop(d, SelectSeq(find_all(d, 1, {"script"}),
                            LAMBDA t : Get(d[t], "type") = <<"application/ld+json">>))

\* the first anchor whose text starts with "Image:" and that has an href
_extract_image_link(d) ==
    LET hits == SelectSeq(find_all(d, 1, {"a"}),
                          LAMBDA a : /\ StartsWith(get_text(d, a), <<"Image:">>)
                                     /\ Get(d[a], "href") # None)
    IN  IF hits = <<>> THEN [href |-> None, alt |-> None]
        ELSE [href |-> Get(d[hits[1]], "href"),
              alt |-> Strip(Tail(get_text(d, hits[1])))]

\* the attribute values and texts of the raw page, in the order they are written
RawAttrOrder == <<"id", "class", "property", "name", "content", "href", "src", "alt">>

RECURSIVE RawStrings(_), RawStringsOf(_)
RawStringsOf(ks) ==
    IF ks = <<>> THEN <<>> ELSE RawStrings(Head(ks)) \o RawStringsOf(Tail(ks))
RawStrings(m) ==
    IF m.name = "#text" THEN <<m.text>>
    ELSE LET present == SelectSeq(RawAttrOrder, LAMBDA a : a \in DOMAIN m.attrs)
         IN  [k \in 1..Len(present) |-> m.attrs[present[k]]] \o RawStringsOf(m.kids)

\* the characters that end a match of [^\s"'<>]+
UrlStops == Whitespace \cup {"\"", "'", "<", ">"}

\* https?://<prefix>[^\s"'<>]+ anywhere in one string, case ignored
RECURSIVE FindUrls(_, _)
FindUrls(s, prefix) ==
    LET n == Len(prefix) + 3
        here == /\ Len(s) >= n + 2
                /\ ToLower(s[1]) \in {"http", "https"}
                /\ SubSeq(s, 2, 4) = <<":", "/", "/">>
                /\ LowerStr(SubSeq(s, 5, n + 1)) = prefix
                /\ s[n + 2] \notin UrlStops
        stop == FindAny(s, UrlStops)
    IN  IF s = <<>> THEN <<>>
        ELSE IF here THEN <<SubSeq(s, 1, stop - 1)>> \o FindUrls(SubSeq(s, stop, Len(s)), prefix)
        ELSE FindUrls(Tail(s), prefix)

RECURSIVE FindAllUrls(_, _)
FindAllUrls(strings, prefix) ==
    IF strings = <<>> THEN <<>>
    ELSE FindUrls(Head(strings), prefix) \o FindAllUrls(Tail(strings), prefix)

CMS_IMAGE_RE == <<"cms-imgp.jw-cdn.org", "/", "img", "/", "p", "/">>

AKAMAI_IMAGE_RE == <<"assetsnffrgf-a.akamaihd.net", "/", "assets", "/">>

\* _score_image_url: the first size suffix of the url
SizeScores == [_xs |-> 1, _s |-> 2, _m |-> 3, _l |-> 4, _xl |-> 5]

_score_image_url(u) ==
    LET sizes == SelectSeq(LowerStr(u), LAMBDA a : a \in DOMAIN SizeScores)
    IN  IF sizes = <<>> THEN 0 ELSE SizeScores[sizes[1]]

\* the last element after sorting (idx, score, url) by (score, -idx)
_pick_best_image_url(urls) ==
    LET IsLast(i) == \A j \in 1..Len(urls) :
                        \/ _score_image_url(urls[j]) < _score_image_url(urls[i])
                        \/ _score_image_url(urls[j]) = _score_image_url(urls[i]) /\ j >= i
    IN  IF urls = <<>> THEN None ELSE urls[CHOOSE i \in 1..Len(urls) : IsLast(i)]

\* urljoin(base_url, link_url) of the "Image:" link branch
LinkImageUrl(base_url, link_url) == urljoin(base_url, link_url)

\* <<>> stands for None, <<image>> for an image
_extract_fallback_image(markup, d, base_url) ==
    LET meta_image == _extract_meta_image(d)
        jsonld_image == _extract_jsonld_image(d)
        link == _extract_image_link(d)
        raw == RawStrings(markup)
        cms_urls == FindAllUrls(raw, CMS_IMAGE_RE)
        akamai_urls == FindAllUrls(raw, AKAMAI_IMAGE_RE)
        Image(u, alt) == <<[url |-> u, alt |-> alt, caption |-> None]>>
    IN  IF meta_image # None THEN Image(urljoin(base_url, meta_image), None)
        ELSE IF jsonld_image # None THEN Image(urljoin(base_url, jsonld_image), None)
        ELSE IF link.href # None THEN Image(LinkImageUrl(base_url, link.href), link.alt)
        ELSE IF cms_urls # <<>> THEN Image(_pick_best_image_url(cms_urls), None)
        ELSE IF akamai_urls # <<>> THEN Image(_pick_best_image_url(akamai_urls), None)
        ELSE <<>>

-----------------------------------------------------------------------------
(* extract_article and extract_from_html, one action per call *)

NoSnap == [player |-> <<>>, metadata |-> <<>>, figures |-> <<>>, images |-> <<>>,
           collect |-> <<>>, rendered |-> <<>>, ensured |-> <<>>, used_readability |-> FALSE]

InitWith(urls, responses) ==
    /\ pc = "validate"
    /\ url \in urls
    /\ upstream \in responses
    /\ verdict = ""
    /\ fetches = 0
    /\ error = ""
    /\ result = <<>>
    /\ html = <<>>
    /\ dom = <<>>
    /\ container = 0
    /\ title = None
    /\ title_node = 0
    /\ fallback_image = <<>>
    /\ images = <<>>
    /\ markdown = <<>>
    /\ snap = NoSnap

\* where extract_article goes after validate_url: on to the fetch when it
\* returned, out of the call when it raised
AfterValidateMutant(v) == "fetch"

AfterValidate(v) == IF v = "ok" THEN "fetch" ELSE "raised"

\* validate_url(url)
Validate ==
    /\ pc = "validate"
    /\ verdict' = validate_url(url)
    /\ pc' = AfterValidate(verdict')
    /\ error' = IF verdict' = "ok" THEN "" ELSE verdict'
    /\ UNCHANGED <<url, upstream, fetches, result, html, dom, container, title,
                   title_node, fallback_image, images, markdown, snap>>

\* "text/html" in content_type
IsHtml(content_type) == Contains(LowerStr(content_type), <<"text/html">>)

\* the exception fetch_html raises for a response, "" when it returns its text
fetch_html(response) ==
    IF ~response.reachable THEN "RequestError"
    ELSE IF response.status >= 400 THEN "HTTPStatusError"
    ELSE IF ~IsHtml(response.content_type) THEN "ExtractionError"
    ELSE ""

\* html = await fetch_html(url)
Fetch ==
    /\ pc = "fetch"
    /\ fetches' = fetches + 1
    /\ error' = fetch_html(upstream)
    /\ pc' = IF error' = "" THEN "parse" ELSE "raised"
    /\ html' = IF error' = "" THEN upstream.text ELSE html
    /\ UNCHANGED <<url, upstream, verdict, result, dom, container, title, title_node,
                   fallback_image, images, markdown, snap>>

\* soup = BeautifulSoup(html, "lxml"); fallback_image = _extract_fallback_image(...)
ParseHtml ==
    /\ pc = "parse"
    /\ dom' = Parse(html)
    /\ fallback_image' = _extract_fallback_image(html, dom', url)
    /\ pc' = "chrome"
    /\ UNCHANGED <<url, upstream, verdict, fetches, error, result, html, container,
                   title, title_node, images, markdown, snap>>

RemoveUnwantedTags ==
    /\ pc = "chrome"
    /\ dom' = _remove_unwanted_tags(dom)
    /\ pc' = "select"
    /\ UNCHANGED <<url, upstream, verdict, fetches, error, result, html, container,
                   title, title_node, fallback_image, images, markdown, snap>>

\* container = _select_container(soup), the readability fallback when it is None,
\* then title = _extract_title(...) and title_node = _find_title_node(...)
SelectContainer ==
    /\ pc = "select"
    /\ LET found == _select_container(dom) IN
       \E summary \in IF found = 0 THEN SummaryChoices(html) ELSE {html} :
          LET fb == _readability_fallback(dom, summary)
              d == IF found = 0 THEN fb.d ELSE dom
              c == IF found = 0 THEN fb.container ELSE found
              fallback_title == IF found = 0 THEN ReadabilityTitle(html) ELSE None
          IN  /\ dom' = d
              /\ container' = c
              /\ title' = _extract_title(d, c, fallback_title)
              /\ title_node' = _find_title_node(d, c, title')
              /\ snap' = [snap EXCEPT !.used_readability = (found = 0)]
    /\ pc' = "player"
    /\ UNCHANGED <<url, upstream, verdict, fetches, error, result, html,
                   fallback_image, images, markdown>>

StripPlayerControls ==
    /\ pc = "player"
    /\ LET r == _strip_player_controls(dom, container) IN
          /\ dom' = r.d
          /\ pc' = IF r.raised THEN "raised" ELSE "metadata"
          /\ error' = IF r.raised THEN "AttributeError" ELSE ""
    /\ snap' = [snap EXCEPT !.player = dom]
    /\ UNCHANGED <<url, upstream, verdict, fetches, result, html, container, title,
                   title_node, fallback_image, images, markdown>>

StripMetadataBlocks ==
    /\ pc = "metadata"
    /\ dom' = _strip_metadata_blocks(dom, container, title, title_node)
    /\ snap' = [snap EXCEPT !.metadata = dom]
    /\ pc' = "links"
    /\ UNCHANGED <<url, upstream, verdict, fetches, error, result, html, container,
                   title, title_node, fallback_image, images, markdown>>

NormalizeLinks ==
    /\ pc = "links"
    /\ dom' = _normalize_links(dom, container, url)
    /\ pc' = "figures"
    /\ UNCHANGED <<url, upstream, verdict, fetches, error, result, html, container,
                   title, title_node, fallback_image, images, markdown, snap>>

NormalizeFigures ==
    /\ pc = "figures"
    /\ dom' = _normalize_figures(dom, container, url)
    /\ snap' = [snap EXCEPT !.figures = dom]
    /\ pc' = "images"
    /\ UNCHANGED <<url, upstream, verdict, fetches, error, result, html, container,
                   title, title_node, fallback_image, images, markdown>>

NormalizeImages ==
    /\ pc = "images"
    /\ dom' = _normalize_images(dom, container, url)
    /\ snap' = [snap EXCEPT !.images = dom]
    /\ pc' = "collect"
    /\ UNCHANGED <<url, upstream, verdict, fetches, error, result, html, container,
                   title, title_node, fallback_image, images, markdown>>

\* images = _collect_images(container); markdown = _html_to_markdown(container)
CollectAndRender ==
    /\ pc = "collect"
    /\ images' = _collect_images(dom, container)
    /\ markdown' = _html_to_markdown(dom, container)
    /\ snap' = [snap EXCEPT !.collect = images', !.rendered = markdown']
    /\ pc' = "ensure"
    /\ UNCHANGED <<url, upstream, verdict, fetches, error, result, html, dom, container,
                   title, title_node, fallback_image>>

EnsureMarkdownTitle ==
    /\ pc = "ensure"
    /\ markdown' = _ensure_markdown_title(markdown, title)
    /\ snap' = [snap EXCEPT !.ensured = markdown']
    /\ pc' = "fallback"
    /\ UNCHANGED <<url, upstream, verdict, fetches, error, result, html, dom, container,
                   title, title_node, fallback_image, images>>

\* the fallback image when the container gave none, and the return
InsertFallbackAndReturn ==
    /\ pc = "fallback"
    /\ LET use == images = <<>> /\ fallback_image # <<>>
           image == IF fallback_image[1].alt = None
                    THEN [fallback_image[1] EXCEPT !.alt = title]
                    ELSE fallback_image[1]
       IN  /\ images' = IF use THEN <<image>> ELSE images
           /\ markdown' = IF use THEN _insert_fallback_image(markdown, image) ELSE markdown
           /\ fallback_image' = IF use THEN <<image>> ELSE fallback_image
    /\ result' = <<[markdown |-> markdown', title |-> title, source_url |-> url,
                    images |-> images']>>
    /\ pc' = "done"
    /\ UNCHANGED <<url, upstream, verdict, fetches, error, html, dom, container,
                   title, title_node, snap>>

Next ==
    \/ Validate
    \/ Fetch
    \/ ParseHtml
    \/ RemoveUnwantedTags
    \/ SelectContainer
    \/ StripPlayerControls
    \/ StripMetadataBlocks
    \/ NormalizeLinks
    \/ NormalizeFigures
    \/ NormalizeImages
    \/ CollectAndRender
    \/ EnsureMarkdownTitle
    \/ InsertFallbackAndReturn

-----------------------------------------------------------------------------
(* Inputs *)

\* the most blocks of a generated container
MaxBlocks == 2

\* the sequences of at most n elements of a set
SeqsUpTo(set, n) == UNION {[1..k -> set] : k \in 0..n}

Attrs1(k, v) == [a \in {k} |-> v]
Attrs2(k1, v1, k2, v2) == [a \in {k1, k2} |-> IF a = k1 THEN v1 ELSE v2]

P(text) == E("p", NoAttrs, <<T(text)>>)

\* <html><head>..</head><body>..</body></html>; titleText None gives no <title>
Page(titleText, headKids, bodyKids) ==
    E("html", NoAttrs,
      <<E("head", NoAttrs,
          (IF titleText = None THEN <<>> ELSE <<E("title", NoAttrs, <<T(titleText)>>)>>)
          \o headKids),
        E("body", NoAttrs, bodyKids)>>)

BodyText == <<"Body", " ", "Story", ".">>

BaseUrl == <<"https", ":", "/", "/", "www", ".", "jw", ".", "org", "/", "en", "/">>

HtmlResponse(markup) ==
    [reachable |-> TRUE, status |-> 200,
     content_type |-> <<"text/html", ";", " ", "charset=utf-8">>, text |-> markup]

(* URLs for validate_url: scheme, separator, userinfo, host, port and rest *)
UrlSchemes == {<<"https">>, <<"HTTPS">>, <<"http">>, <<>>}
UrlSeparators == {<<":", "/", "/">>, <<":">>}
UrlUserInfos == {<<>>, <<"jw", ".", "org", "@">>}
UrlHosts ==
    {<<"jw", ".", "org">>, <<"www", ".", "jw", ".", "org">>, <<"JW", ".", "ORG">>,
     <<"evil", "-", "jw", ".", "org">>, <<"jw", ".", "org", ".", "evil", ".", "com">>,
     <<"evil", ".", "com">>, <<"[", "jw", ".", "org">>, <<>>}
UrlPorts == {<<>>, <<":", "443">>}
UrlRests == {<<>>, <<"/", "en", "/">>, <<"/", ".", "jw", ".", "org">>,
             <<"?", "u", "=", ".", "jw", ".", "org">>}

Urls ==
    {s \o sep \o u \o h \o p \o r :
        s \in UrlSchemes, sep \in UrlSeparators, u \in UrlUserInfos, h \in UrlHosts,
        p \in UrlPorts, r \in UrlRests}

SimplePage == Page(<<"Title">>, <<>>, <<E("main", NoAttrs, <<P(BodyText)>>)>>)

UrlResponses ==
    {HtmlResponse(SimplePage),
     [HtmlResponse(SimplePage) EXCEPT !.status = 404],
     [HtmlResponse(SimplePage) EXCEPT !.reachable = FALSE],
     [HtmlResponse(SimplePage) EXCEPT !.content_type = <<"application/json">>],
     [HtmlResponse(SimplePage) EXCEPT !.content_type = <<"TEXT/HTML">>]}

InitUrl == InitWith(Urls, UrlResponses)

\* extract_article over every URL of the model
Spec == InitUrl /\ [][Next]_vars

-----------------------------------------------------------------------------
(* Pages with figures and images in the container *)

Img(attrs) == E("img", attrs, <<>>)

Figure(kids) == E("figure", NoAttrs, kids)

Figcaption(text) == E("figcaption", NoAttrs, <<T(text)>>)

RelSrc == <<"/", "media", "/", "pic.jpg">>

\* <p><em>Note</em></p> written by the author of the page
EmParagraph == E("p", NoAttrs, <<E("em", NoAttrs, <<T(<<"Note">>)>>)>>)

FigBlocks ==
    {Figure(<<Img(Attrs2("src", RelSrc, "alt", <<"Hero">>)), Figcaption(<<"Caption">>)>>),
     Figure(<<Img(Attrs1("data-src", <<"pic.jpg">>))>>),
     Figure(<<Figcaption(<<" ", "Note", " ">>),
              Img(Attrs1("srcset", <<"a.jpg", " ", "1x", ",", " ", "b.jpg", " ", "2x">>))>>),
     Figure(<<Img(Attrs1("alt", <<"Hero">>)), Figcaption(<<"Caption">>)>>),
     Figure(<<Img(NoAttrs), Img(Attrs1("src", <<"b.jpg">>))>>),
     Figure(<<Img(Attrs1("src", <<"a.jpg">>)),
              Figure(<<Img(Attrs1("src", <<"b.jpg">>)), Figcaption(<<"Note">>)>>)>>),
     Figure(<<P(BodyText)>>),
     Img(Attrs1("src", RelSrc)),
     Img(Attrs1("data-original",
                <<"https", ":", "/", "/", "cdn", ".", "example", "/", "x.jpg">>)),
     Img(Attrs1("src", <<"data", ":", "x.png">>)),
     EmParagraph,
     P(BodyText)}

FigPages ==
    {Page(<<"Title">>, <<>>, <<E("main", NoAttrs, blocks)>>) :
        blocks \in SeqsUpTo(FigBlocks, MaxBlocks)}

InitFig == InitWith({BaseUrl}, {HtmlResponse(m) : m \in FigPages})

\* extract_article over the pages with figures and images
SpecFig == InitFig /\ [][Next]_vars

-----------------------------------------------------------------------------
(* Pages for the fallback image and the title line: an image source outside
   the container, with or without a <title>, and a container of few blocks *)

CmsUrl(name) ==
    <<"https", ":", "/", "/", "cms-imgp.jw-cdn.org", "/", "img", "/", "p", "/", name,
      "_xl", ".", "jpg">>

CmsSmallUrl ==
    <<"https", ":", "/", "/", "cms-imgp.jw-cdn.org", "/", "img", "/", "p", "/", "c",
      "_s", ".", "jpg">>

AkamaiUrl ==
    <<"HTTPS", ":", "/", "/", "assetsnffrgf-a.akamaihd.net", "/", "assets", "/", "m",
      "_s", ".", "jpg">>

\* what the page holds outside its container: head elements and body elements
FallbackSources ==
    {[head |-> <<>>, body |-> <<>>],
     [head |-> <<E("meta", Attrs2("property", <<"og:image">>,
                                  "content", <<" ", "/", "media", "/", "og.jpg">>), <<>>)>>,
      body |-> <<>>],
     [head |-> <<E("script", Attrs1("type", <<"application/ld+json">>),
                   <<T(<<"{image:", "img", "/", "ld.jpg", "}">>)>>)>>,
      body |-> <<>>],
     [head |-> <<>>,
      body |-> <<E("a", Attrs1("href", <<"..", "/", "link.jpg">>),
                   <<T(<<"Image:", " ", "Hero">>)>>)>>],
     [head |-> <<>>,
      body |-> <<E("a", Attrs1("href", <<"/", "media", "/", "pic.jpg">>),
                   <<T(<<"Image:">>)>>)>>],
     [head |-> <<>>,
      body |-> <<E("span", NoAttrs, <<T(CmsUrl("a") \o <<" ">> \o CmsUrl("b"))>>)>>],
     [head |-> <<>>,
      body |-> <<E("span", NoAttrs,
                   <<T(CmsSmallUrl \o <<" ">> \o CmsUrl("a") \o <<" ">> \o CmsUrl("b"))>>)>>],
     [head |-> <<>>,
      body |-> <<E("a", Attrs1("href", AkamaiUrl), <<T(<<"Hero">>)>>)>>]}

TitleBlocks ==
    {P(<<"Title">>),
     E("h1", NoAttrs, <<T(<<"Title">>)>>),
     P(<<"Title", " ", "Story">>),
     P(<<"Title", "LS", "Body">>),
     P(BodyText),
     Img(Attrs1("src", RelSrc))}

FallbackPages ==
    {Page(t, src.head, <<E("main", NoAttrs, blocks)>> \o src.body) :
        t \in {None, <<"Title">>}, src \in FallbackSources,
        blocks \in SeqsUpTo(TitleBlocks, MaxBlocks)}

\* pages without article, main or keyword div: the readability fallback
ReadabilityPages ==
    {Page(<<"Title">>, <<>>, <<E("div", NoAttrs, <<b>>)>>) : b \in TitleBlocks}

InitFallback ==
    InitWith({BaseUrl}, {HtmlResponse(m) : m \in FallbackPages \cup ReadabilityPages})

\* extract_article over the pages with a fallback image source
SpecFallback == InitFallback /\ [][Next]_vars

\* extract_article over both families of pages with images
SpecImages == (InitFig \/ InitFallback) /\ [][Next]_vars

-----------------------------------------------------------------------------
(* Pages with publication metadata in the container *)

Classed(name, class, kids) == E(name, Attrs1("class", class), kids)

\* 257 characters as written, 247 once the run of spaces is collapsed
SpacedText ==
    <<"Fill240", " ", " ", " ", " ", " ", " ", " ", " ", " ", " ", " ", "AWAKE!">>

MetaBlocks ==
    {P(BodyText),
     Classed("div", <<"publication", "-", "info">>,
             <<T(<<"\n", "THE", " ", "WATCHTOWER", "\n">>), E("br", NoAttrs, <<>>),
               T(<<"\n", "wp24", " ", "No.", " ", "1", " ", "pp.", " ", "14-15", "\n">>)>>),
     Classed("div", <<"related">>, <<P(BodyText)>>),
     P(<<"The", " ", "Watchtower">>),
     P(<<"WP24", " ", "pp", " ", "14-15">>),
     P(<<"wp24">>),
     E("h2", NoAttrs, <<T(<<"Title", " ", "English">>)>>),
     Classed("div", <<"share">>, <<T(<<"Fill251">>)>>),
     Classed("div", <<"share">>, <<T(<<"Fill251">>), P(<<"Awake!">>)>>),
     Classed("div", <<"promo">>, <<E("img", Attrs1("src", RelSrc), <<>>)>>),
     Classed("span", <<"share">>, <<T(<<"Body">>)>>),
     P(SpacedText),
     E("ul", NoAttrs, <<E("li", NoAttrs, <<T(<<"AWAKE!">>)>>)>>),
     Classed("p", <<"publication">>, <<T(<<"Title">>)>>),
     E("div", NoAttrs, <<Classed("p", <<"publication">>, <<T(<<"Title">>)>>)>>)}

MetaPages ==
    {Page(<<"Title">>, <<>>, <<E("main", NoAttrs, blocks)>>) :
        blocks \in SeqsUpTo(MetaBlocks, MaxBlocks)}

InitMeta == InitWith({BaseUrl}, {HtmlResponse(m) : m \in MetaPages})

\* extract_article over the pages with publication metadata
SpecMeta == InitMeta /\ [][Next]_vars

-----------------------------------------------------------------------------
(* Pages with player controls in the container *)

PlayerBlocks ==
    {P(BodyText),
     Classed("div", <<"audio", "-", "player">>,
             <<E("span", Attrs1("role", <<"button">>), <<T(<<"PLAY">>)>>)>>),
     Classed("div", <<"audio", "-", "player">>,
             <<E("button", Attrs1("role", <<"button">>), <<T(<<"PLAY">>)>>)>>),
     Classed("div", <<"media">>, <<T(<<"Fill21">>)>>),
     Classed("div", <<"media">>, <<T(<<"Fill16", "Play">>)>>),
     E("div", Attrs2("class", <<"media">>, "title", <<"Video">>), <<T(<<"Fill21">>)>>),
     Classed("div", <<"player">>, <<Img(Attrs1("src", RelSrc)), T(<<"Play">>)>>),
     E("div", Attrs1("id", <<"jwplayer">>), <<T(<<"Play">>)>>),
     Classed("video", <<"vjs">>, <<T(<<"Fill21">>)>>),
     E("div", Attrs2("class", <<"audio", "-", "player">>, "aria-label", <<"Audio">>),
       <<E("span", Attrs1("aria-label", <<"Play">>), <<T(<<"PLAY">>)>>)>>),
     Classed("div", <<"player">>,
             <<E("span", Attrs1("title", <<"Play", " ", "audio">>), <<T(<<"Fill21">>)>>)>>),
     Classed("div", <<"article">>, <<T(<<"OK">>)>>)}

PlayerPages ==
    {Page(<<"Title">>, <<>>, <<E("main", NoAttrs, blocks)>>) :
        blocks \in SeqsUpTo(PlayerBlocks, MaxBlocks)}

InitPlayer == InitWith({BaseUrl}, {HtmlResponse(m) : m \in PlayerPages})

\* extract_article over the pages with player controls
SpecPlayer == InitPlayer /\ [][Next]_vars

-----------------------------------------------------------------------------
(* Pages with chrome: headers in and out of the content region, and the
   elements _remove_unwanted_tags removes *)

Header(kids) == E("header", NoAttrs, kids)

HeroImg == Img(Attrs2("src", <<"/", "images", "/", "hero.jpg">>, "alt", <<"Hero">>))

ChromeBlocks ==
    {Header(<<HeroImg>>),
     E("article", NoAttrs, <<Header(<<Figure(<<HeroImg>>)>>), P(BodyText)>>),
     E("main", NoAttrs, <<Header(<<T(<<"Title">>)>>), P(BodyText)>>),
     E("main", NoAttrs,
       <<Header(<<E("button", NoAttrs, <<T(<<"PLAY">>)>>), HeroImg>>)>>),
     E("article", NoAttrs, <<E("aside", NoAttrs, <<Header(<<T(<<"Note">>)>>)>>),
                             P(BodyText)>>),
     Header(<<E("article", NoAttrs, <<Header(<<T(<<"Title">>)>>)>>)>>),
     E("div", NoAttrs, <<Header(<<P(BodyText)>>)>>),
     E("nav", NoAttrs, <<T(<<"Body">>)>>),
     E("form", NoAttrs, <<E("button", NoAttrs, <<T(<<"PLAY">>)>>)>>),
     E("script", NoAttrs, <<T(<<"OK">>)>>),
     E("div", NoAttrs,
       <<E("footer", NoAttrs, <<T(<<"Note">>)>>), E("svg", NoAttrs, <<>>),
         E("noscript", NoAttrs, <<T(<<"OK">>)>>), E("style", NoAttrs, <<T(<<"OK">>)>>),
         E("aside", NoAttrs, <<T(<<"Note">>)>>)>>),
     P(BodyText)}

ChromePages ==
    {Page(<<"Title">>, <<>>, blocks) : blocks \in SeqsUpTo(ChromeBlocks, MaxBlocks)}

InitChrome == InitWith({BaseUrl}, {HtmlResponse(m) : m \in ChromePages})

\* extract_article over the pages with chrome
SpecChrome == InitChrome /\ [][Next]_vars

-----------------------------------------------------------------------------
(* Pages for container selection: with and without article and main, and
   divs with and without a keyword, of text lengths around MIN_TEXT_LEN *)

ContainerBlocks ==
    {E("article", NoAttrs, <<P(BodyText)>>),
     E("main", NoAttrs, <<P(BodyText)>>),
     E("div", NoAttrs, <<E("main", NoAttrs, <<P(<<"Fill240">>)>>)>>),
     Classed("div", <<"content">>, <<P(<<"Fill199">>)>>),
     Classed("div", <<"Content", " ", "wide">>, <<P(<<"Fill199", ".">>)>>),
     E("div", Attrs1("id", <<"pub">>), <<P(<<"Fill240">>)>>),
     Classed("div", <<"body">>, <<P(<<"Fill240">>)>>),
     Classed("div", <<"wide">>, <<P(<<"Fill251">>)>>),
     Classed("div", <<"article">>,
             <<Classed("div", <<"body">>, <<P(<<"Fill240">>)>>), P(BodyText)>>),
     Classed("div", <<"content">>, <<>>),
     P(BodyText)}

ContainerPages ==
    {Page(<<"Title">>, <<>>, blocks) : blocks \in SeqsUpTo(ContainerBlocks, MaxBlocks)}

InitContainer == InitWith({BaseUrl}, {HtmlResponse(m) : m \in ContainerPages})

\* extract_article over the pages for container selection
SpecContainer == InitContainer /\ [][Next]_vars

-----------------------------------------------------------------------------
(* Pages whose one image has only a srcset, of up to MaxCandidates parts *)

MaxCandidates == 3

SrcsetPart(name, descriptor) == <<" ", "/", name, " ", descriptor>>

SrcsetParts ==
    {<<"/", "a.jpg">>,
     SrcsetPart("b.jpg", "2x"),
     SrcsetPart("c.jpg", "2w") \o <<" ">>,
     SrcsetPart("d.jpg", "3x"),
     SrcsetPart("e.jpg", "nanx"),
     SrcsetPart("f.jpg", "2X"),
     SrcsetPart("g.jpg", "-1x"),
     <<" ">>}

Srcsets == {Join(parts, <<",">>) : parts \in SeqsUpTo(SrcsetParts, MaxCandidates)}

SrcsetPages ==
    {Page(<<"Title">>, <<>>,
          <<E("main", NoAttrs, <<Img(Attrs1("srcset", srcset)), P(BodyText)>>)>>) :
        srcset \in Srcsets}

InitSrcset == InitWith({BaseUrl}, {HtmlResponse(m) : m \in SrcsetPages})

\* extract_article over the pages with a srcset image
SpecSrcset == InitSrcset /\ [][Next]_vars

-----------------------------------------------------------------------------
(* Claims about validate_url and extract_article *)

\* the scheme is https and the host is jw.org or a name under it
UrlIsTrusted(u) ==
    /\ urlsplit(u).scheme = <<"https">>
    /\ \/ hostname(urlsplit(u).netloc) = <<"jw", ".", "org">>
       \/ EndsWith(hostname(urlsplit(u).netloc), <<".", "jw", ".", "org">>)

\* C1: validate_url returns without error if and only if the parsed scheme is
\* https and the lower-cased host is jw.org or ends with ".jw.org", and every
\* other URL is rejected with ExtractionError.
C1_AcceptsTrustedRejectsWithExtractionError ==
    pc # "validate" =>
        /\ (verdict = "ok") <=> UrlIsTrusted(url)
        /\ ~UrlIsTrusted(url) => verdict = "ExtractionError"

\* C2: the fetch starts only after validate_url accepted the URL, a rejected
\* URL never causes a fetch, and after a validation or fetch error nothing is
\* parsed, extracted or returned.
C2_ValidateBeforeFetchAndErrorsAbort ==
    /\ fetches > 0 => verdict = "ok"
    /\ verdict \in {"ExtractionError", "ValueError"} =>
          fetches = 0 /\ pc = "raised" /\ html = <<>> /\ dom = <<>> /\ result = <<>>
    /\ (fetches > 0 /\ html = <<>>) =>
          /\ pc = "raised"
          /\ error \in {"RequestError", "HTTPStatusError", "ExtractionError"}
          /\ dom = <<>> /\ result = <<>>
    /\ (dom # <<>> \/ result # <<>>) => (verdict = "ok" /\ fetches = 1 /\ html # <<>>)

\* a rejected URL has ended the call without a fetch
C2_WitnessRejected == pc = "raised" /\ verdict = "ExtractionError" /\ fetches = 0

-----------------------------------------------------------------------------
(* Claims about images and figures *)

\* the sources of the images the container held when _normalize_figures began
ContainerSources ==
    {ResolveSrc(snap.figures[i]) : i \in SeqRange(find_all(snap.figures, container, {"img"}))}

\* C3: every entry of the returned images list has an absolute url, whether it
\* came from the container or from the fallback resolver, and a container
\* image's url is its source resolved against the base URL.
C3_ImageUrlsAbsolute ==
    pc = "done" =>
        \A k \in 1..Len(result[1].images) :
            LET u == result[1].images[k].url IN
            /\ IsAbsoluteUrl(u)
            /\ images = snap.collect =>
                  \E src \in ContainerSources \ {None} : u = urljoin(url, src)

\* the relative source /media/pic.jpg came out as https://www.jw.org/media/pic.jpg
C3_WitnessRelativeResolved ==
    /\ pc = "done"
    /\ RelSrc \in ContainerSources
    /\ result[1].images # <<>>
    /\ result[1].images[1].url =
          <<"https", ":", "/", "/", "www", ".", "jw", ".", "org", "/", "media", "/", "pic.jpg">>

\* the container's nodes in document order
DocOrder(d) == Descendants(d, container)

Before(d, x, y) == FindAtom(DocOrder(d), x) < FindAtom(DocOrder(d), y)

\* the nodes of the container that are in it before and after
Survivors(pre, post) == SeqRange(DocOrder(pre)) \cap SeqRange(DocOrder(post))

FigureImage(pre, figure) == find(pre, figure, {"img"})

HasResolvableImage(pre, figure) ==
    FigureImage(pre, figure) # 0 /\ ResolveSrc(pre[FigureImage(pre, figure)]) # None

FigureCaptionText(pre, figure) ==
    LET figcaption == find(pre, figure, {"figcaption"})
    IN  IF figcaption # 0 THEN get_text(pre, figcaption) ELSE None

\* the child that follows x under its parent, 0 when x is the last
NextKid(d, x) ==
    LET ks == d[d[x].parent].kids
        at == FindAtom(ks, x)
    IN  IF at < Len(ks) THEN ks[at + 1] ELSE 0

\* <p><em>text</em></p>
IsCaptionParagraph(d, p, text) ==
    /\ p # 0
    /\ d[p].name = "p"
    /\ Len(d[p].kids) = 1
    /\ d[d[p].kids[1]].name = "em"
    /\ get_text(d, p) = text

\* the figure's place is taken by its image, then its caption paragraph
FlattenedInPlace(pre, post, figure) ==
    LET img == FigureImage(pre, figure)
        caption == FigureCaptionText(pre, figure)
        after == NextKid(post, img)
        last == IF caption # None THEN after ELSE img
    IN  /\ img \in SeqRange(DocOrder(post))
        /\ figure \notin SeqRange(DocOrder(post))
        /\ post[img].name = "img"
        /\ post[img].parent = pre[figure].parent
        /\ caption # None => (after > Len(pre) /\ IsCaptionParagraph(post, after, caption))
        /\ caption = None => after <= Len(pre)
        /\ \A x \in Survivors(pre, post) \ {img} :
              /\ Before(pre, x, figure) => Before(post, x, img)
              /\ Before(pre, figure, x) => Before(post, last, x)

\* C4: after _normalize_figures every figure whose image has a resolvable
\* source has its place taken by the bare image, immediately followed by the
\* caption paragraph when it had a non-empty caption; what preceded the figure
\* precedes the image, what followed it follows the caption, and the order of
\* all other content is unchanged.
C4_FiguresFlattenedInPlace ==
    pc = "images" =>
        /\ \A figure \in SeqRange(find_all(snap.figures, container, {"figure"})) :
              HasResolvableImage(snap.figures, figure) =>
                  FlattenedInPlace(snap.figures, dom, figure)
        /\ \A x, y \in Survivors(snap.figures, dom) :
              Before(snap.figures, x, y) => Before(dom, x, y)

\* the images _collect_images lists, as nodes
CollectedNodes(d) ==
    SelectSeq(find_all(d, container, {"img"}), LAMBDA i : Get(d[i], "src") # None)

\* the figure that held x and was in no other figure, 0 when x was in no figure
OutermostFigure(pre, x) ==
    LET RECURSIVE Up(_, _)
        Up(n, found) == IF n = 0 THEN found
                        ELSE Up(pre[n].parent, IF pre[n].name = "figure" THEN n ELSE found)
    IN  Up(pre[x].parent, 0)

\* C5: an image's caption is the figcaption text of the figure it was
\* flattened from, and null for an image that came from no figure with a
\* non-empty caption.
C5_CaptionIsFigcaptionOrNull ==
    pc = "ensure" =>
        \A k \in 1..Len(images) :
            LET figure == OutermostFigure(snap.figures, CollectedNodes(dom)[k])
            IN  images[k].caption =
                    IF figure = 0 THEN None ELSE FigureCaptionText(snap.figures, figure)

-----------------------------------------------------------------------------
(* Claims about _strip_metadata_blocks *)

\* C6: after _strip_metadata_blocks the recorded title node is still in the
\* container and its visible text is unchanged, whatever the title text or
\* the classes of the title node and of its descendants.
C6_TitleNodeUntouched ==
    (pc = "links" /\ title_node \in SeqRange(DocOrder(snap.metadata))) =>
        /\ title_node \in SeqRange(DocOrder(dom))
        /\ get_text(dom, title_node) = get_text(snap.metadata, title_node)

\* the four rules, as stated for a block of this whitespace-normalized text
MatchesMetadataRule(node, normalized) ==
    \/ ContainsAnyAtom(CasefoldStr(Get(node, "id") \o <<" ">> \o Get(node, "class")),
                       {"publication", "issue", "magazine", "context", "related",
                        "footer", "language", "promo", "share"})
    \/ Contains(UpperStr(normalized), <<"THE", " ", "WATCHTOWER">>)
    \/ Contains(UpperStr(normalized), <<"AWAKE!">>)
    \/ /\ ContainsAnyAtom(normalized, {"wp24", "WP24"})
       /\ \/ Contains(normalized, <<"No.">>)
          \/ Contains(normalized, <<"pp.">>)
          \/ Contains(normalized, <<"pp", " ">>)
    \/ /\ title # None
       /\ Contains(CasefoldStr(normalized), <<"english">>)
       /\ Contains(CasefoldStr(normalized), CasefoldStr(title))

\* the candidate blocks the rules remove, read off the container as it was
StrippedBlocks(pre) ==
    {c \in SeqRange(find_all(pre, container, MetadataCandidates)) :
        /\ ~_contains_node(pre, c, title_node)
        /\ get_text(pre, c) # <<>>
        /\ StrLen(Normalize(get_text(pre, c))) <= 250
        /\ MatchesMetadataRule(pre[c], Normalize(get_text(pre, c)))}

\* those blocks and everything below them
Gone(pre) == UNION {{c} \cup SeqRange(Descendants(pre, c)) : c \in StrippedBlocks(pre)}

\* C7: _strip_metadata_blocks removes a candidate block that does not contain
\* the title node if and only if its normalized text is non-empty, at most 250
\* characters long and matches one of the four rules, or it lies below a block
\* removed that way; nothing else is removed or changed, and no element whose
\* normalized text is longer than 250 characters is removed.
C7_RemovesExactlyShortMetadataBlocks ==
    pc = "links" =>
        /\ \A x \in SeqRange(DocOrder(snap.metadata)) :
              x \in SeqRange(DocOrder(dom)) <=> x \notin Gone(snap.metadata)
        /\ \A x \in Survivors(snap.metadata, dom) :
              /\ dom[x].name = snap.metadata[x].name
              /\ dom[x].attrs = snap.metadata[x].attrs
              /\ dom[x].text = snap.metadata[x].text
              /\ dom[x].kids = SelectSeq(snap.metadata[x].kids,
                                         LAMBDA k : k \notin Gone(snap.metadata))
        /\ \A x \in SeqRange(DocOrder(snap.metadata)) :
              StrLen(Normalize(get_text(snap.metadata, x))) > 250 =>
                  x \in SeqRange(DocOrder(dom))

\* a metadata block was removed, a keyword block of more than 250 characters
\* and a body paragraph beside it were not
C7_WitnessBlockRemovedNeighbourKept ==
    /\ pc = "links"
    /\ StrippedBlocks(snap.metadata) # {}
    /\ \E x \in Survivors(snap.metadata, dom) :
          \/ dom[x].name = "p" /\ get_text(dom, x) = BodyText
          \/ /\ StrLen(get_text(dom, x)) > 250
             /\ MatchesMetadataRule(dom[x], Normalize(get_text(dom, x)))

-----------------------------------------------------------------------------
(* Claims about _strip_player_controls *)

\* the element has no img or picture below it and at most 20 characters of text
IsShortPlayerBlock(pre, x) ==
    /\ find(pre, x, {"img", "picture"}) = 0
    /\ StrLen(get_text(pre, x)) <= 20

\* C8: once _strip_player_controls has run, an element whose id or class
\* matches the player pattern is gone when it had no img/picture descendant and
\* at most 20 characters of visible text, a matching element with more than 20
\* characters of visible text is still in the container, and so are the body
\* paragraphs beside them.
C8_ShortPlayerBlocksRemovedLongKept ==
    (pc \in {"metadata", "raised"} /\ snap.player # <<>>) =>
        /\ \A x \in SeqRange(find_all_tags(snap.player, container)) :
              MatchesPlayerClass(snap.player[x]) =>
                  /\ IsShortPlayerBlock(snap.player, x) => x \notin SeqRange(DocOrder(dom))
                  /\ StrLen(get_text(snap.player, x)) > 20 => x \in SeqRange(DocOrder(dom))
        /\ \A x \in SeqRange(find_all(snap.player, container, {"p"})) :
              x \in SeqRange(DocOrder(dom))

-----------------------------------------------------------------------------
(* Claims about the fallback image and the title line *)

\* the lines with something on them
NonBlank(lines) == SelectSeq(lines, LAMBDA l : Strip(l) # <<>>)

\* the first non-blank line of the markdown is a level-1 heading
StartsWithHeading(md) ==
    NonBlank(splitlines(md)) # <<>>
        /\ StartsWith(Strip(NonBlank(splitlines(md))[1]), <<"#", " ">>)

\* what _extract_fallback_image found in the page
FoundFallback == _extract_fallback_image(html, Parse(html), url)

\* the one fallback entry, and its line in its place among the lines
FallbackImageReturned(returned, found) ==
    LET image == returned.images[1]
        line == ImageMarkdown(image.alt, image.url)
        before == NonBlank(splitlines(snap.ensured))
    IN  /\ Len(returned.images) = 1
        /\ image.url = found.url
        /\ image.alt = (IF found.alt # None THEN found.alt ELSE title)
        /\ image.caption = None
        /\ NonBlank(splitlines(returned.markdown)) =
              IF StartsWithHeading(snap.ensured)
              THEN <<before[1], line>> \o Tail(before)
              ELSE <<line>> \o before

\* C9: when the container gave no image and the resolver found one, the
\* images list is that one entry, with the source's alt or else the title, and
\* the markdown has one image line for it, right after the heading line when
\* the first non-blank line is a level-1 heading and before all content
\* otherwise; when the container gave an image, the images list and the
\* markdown are those of the container.
C9_FallbackImageInserted ==
    pc = "done" =>
        /\ (snap.collect = <<>> /\ FoundFallback # <<>>) =>
              FallbackImageReturned(result[1], FoundFallback[1])
        /\ snap.collect # <<>> =>
              result[1].images = snap.collect /\ result[1].markdown = snap.ensured

\* a fallback image with the title as alt went in after the heading, before
\* the text that followed the heading
C9_WitnessAfterHeading ==
    /\ pc = "done"
    /\ snap.collect = <<>>
    /\ FoundFallback # <<>>
    /\ FoundFallback[1].alt = None
    /\ result[1].images[1].alt = <<"Title">>
    /\ StartsWithHeading(snap.ensured)
    /\ Len(NonBlank(splitlines(result[1].markdown))) > 2

\* the first non-blank line is the plain title
FirstLineIsTitle(md) ==
    /\ title # None
    /\ NonBlank(splitlines(md)) # <<>>
    /\ Strip(NonBlank(splitlines(md))[1]) = title

\* C10: _ensure_markdown_title makes the first non-blank line "# <title>"
\* exactly when that line, trimmed, is the plain title; otherwise it returns
\* the markdown unchanged; in both cases every other line is as it was.
C10_TitleLineRewrittenOnlyWhenEqual ==
    pc = "fallback" =>
        LET lines == splitlines(snap.rendered)
            out == splitlines(markdown)
            idx == FirstNonBlank(lines)
        IN  IF FirstLineIsTitle(snap.rendered)
            THEN /\ Len(out) = Len(lines)
                 /\ out[idx] = <<"#", " ">> \o title
                 /\ \A j \in 1..Len(lines) : j # idx => out[j] = lines[j]
            ELSE markdown = snap.rendered

\* the title line became a heading and the line after it is as it was
C10_WitnessRewritten ==
    /\ pc = "fallback"
    /\ FirstLineIsTitle(snap.rendered)
    /\ markdown # snap.rendered
    /\ Len(splitlines(markdown)) > 1

-----------------------------------------------------------------------------
(* Claims about _remove_unwanted_tags *)

\* the nodes of the document: the root and what is below it
InDocument(d) == {1} \cup SeqRange(Descendants(d, 1))

\* the header had an article or main element above it
InContentRegion(pre, x) == HasAncestor(pre, x, "article") \/ HasAncestor(pre, x, "main")

\* C11: after _remove_unwanted_tags the document holds no script, style,
\* noscript, nav, footer, aside, svg, form or button element, and a header
\* element remains if and only if it had an article or main ancestor.
C11_HeaderRemainsIffInContentRegion ==
    pc = "select" =>
        /\ \A x \in InDocument(dom) :
              dom[x].name \notin {"script", "style", "noscript", "nav", "footer", "aside",
                                  "svg", "form", "button"}
        /\ \A x \in InDocument(Parse(html)) :
              Parse(html)[x].name = "header" =>
                  (x \in InDocument(dom) <=> InContentRegion(Parse(html), x))

\* the elements removed in their own right: the nine kinds, and the headers
\* outside the content region
RemovedRoots(pre) ==
    {x \in InDocument(pre) :
        \/ pre[x].name \in {"script", "style", "noscript", "nav", "footer", "aside",
                            "svg", "form", "button"}
        \/ pre[x].name = "header" /\ ~InContentRegion(pre, x)}

\* x is, or lies inside, an element removed in its own right
InsideRemoved(pre, x) ==
    \E r \in RemovedRoots(pre) : x = r \/ x \in SeqRange(Descendants(pre, r))

\* C11, amended: none of the nine kinds of element is left, and a node remains
\* if and only if neither it nor an element above it is one of the nine kinds
\* or a header without article or main ancestor; so a header remains if and
\* only if it had an article or main ancestor and lay inside no removed
\* element, and a header that remains keeps its attributes and all of its
\* content that is not itself removed.
C11_RemainsIffOutsideRemoved ==
    pc = "select" =>
        /\ \A x \in InDocument(dom) :
              dom[x].name \notin {"script", "style", "noscript", "nav", "footer", "aside",
                                  "svg", "form", "button"}
        /\ \A x \in InDocument(Parse(html)) :
              /\ x \in InDocument(dom) <=> ~InsideRemoved(Parse(html), x)
              /\ x \in InDocument(dom) =>
                    /\ dom[x].name = Parse(html)[x].name
                    /\ dom[x].attrs = Parse(html)[x].attrs
                    /\ dom[x].text = Parse(html)[x].text

\* a header under main remained with its hero image and without its button,
\* and a header outside the content region is gone
C11_WitnessHeaderKeptAndDropped ==
    /\ pc = "select"
    /\ \E x \in InDocument(dom) :
          /\ dom[x].name = "header"
          /\ HasAncestor(dom, x, "main")
          /\ find(Parse(html), x, {"button"}) # 0
          /\ find(dom, x, {"button"}) = 0
          /\ find(dom, x, {"img"}) # 0
    /\ \E x \in InDocument(Parse(html)) :
          Parse(html)[x].name = "header" /\ x \notin InDocument(dom)

-----------------------------------------------------------------------------
(* Claims about the raw-HTML scan of _extract_fallback_image *)

\* the URLs of the scan that decides: the first prefix's when it has any
ScannedUrls ==
    LET raw == RawStrings(html)
        cms_urls == FindAllUrls(raw, CMS_IMAGE_RE)
    IN  IF cms_urls # <<>> THEN cms_urls ELSE FindAllUrls(raw, AKAMAI_IMAGE_RE)

\* no meta image, no JSON-LD image and no "Image:" link, and the scan has URLs
ScanDecides ==
    /\ _extract_meta_image(Parse(html)) = None
    /\ _extract_jsonld_image(Parse(html)) = None
    /\ _extract_image_link(Parse(html)).href = None
    /\ ScannedUrls # <<>>

\* positions of the URLs with the highest score
TopScored(urls) ==
    {i \in 1..Len(urls) :
        \A j \in 1..Len(urls) : _score_image_url(urls[j]) <= _score_image_url(urls[i])}

Latest(positions) == CHOOSE i \in positions : \A j \in positions : j <= i

Earliest(positions) == CHOOSE i \in positions : \A j \in positions : i <= j

\* C12: when the raw-HTML scan decides the fallback image, the chosen URL has
\* the highest size-suffix score of the scanned URLs, and among the URLs with
\* that score it is the one occurring latest in the raw HTML.
C12_ScanPicksLatestOfHighestScore ==
    (pc = "done" /\ snap.collect = <<>> /\ ScanDecides) =>
        result[1].images[1].url = ScannedUrls[Latest(TopScored(ScannedUrls))]

\* what the code does: the highest score, and among equals the earliest
ScanPicksEarliestOfHighestScore ==
    (pc = "done" /\ snap.collect = <<>> /\ ScanDecides) =>
        result[1].images[1].url = ScannedUrls[Earliest(TopScored(ScannedUrls))]

\* two URLs share the highest score, after a URL of lower score
C12_WitnessTie ==
    /\ pc = "done"
    /\ snap.collect = <<>>
    /\ ScanDecides
    /\ Cardinality(TopScored(ScannedUrls)) = 2
    /\ 1 \notin TopScored(ScannedUrls)

-----------------------------------------------------------------------------
(* Claims about _select_container *)

\* the document _select_container is given
Soup == _remove_unwanted_tags(Parse(html))

\* the divs whose id/class text matches the keyword pattern
KeywordDivs ==
    {x \in SeqRange(find_all(Soup, 1, {"div"})) :
        ContainsAnyAtom(CasefoldStr(ClassId(Soup[x])), KEYWORD_RE)}

TextLen(x) == StrLen(get_text(Soup, x))

\* C13: the container is the first article element if there is one; otherwise
\* the first main element if there is one; otherwise a keyword div of greatest
\* text length, provided that length is at least 200; otherwise nothing is
\* found, and the readability fallback runs exactly in that case.
C13_ContainerOrderAndThreshold ==
    pc = "player" =>
        LET articles == find_all(Soup, 1, {"article"})
            mains == find_all(Soup, 1, {"main"})
        IN  IF articles # <<>>
            THEN container = articles[1] /\ ~snap.used_readability
            ELSE IF mains # <<>>
            THEN container = mains[1] /\ ~snap.used_readability
            ELSE IF \E x \in KeywordDivs : TextLen(x) >= 200
            THEN /\ container \in KeywordDivs
                 /\ \A x \in KeywordDivs : TextLen(x) <= TextLen(container)
                 /\ ~snap.used_readability
            ELSE /\ snap.used_readability
                 /\ container = Len(Soup) + 1
                 /\ dom[container].parent = 0

\* a keyword div of exactly 200 characters was selected, past a longer div
\* without keyword
C13_WitnessThresholdDiv ==
    /\ pc = "player"
    /\ ~snap.used_readability
    /\ container \in KeywordDivs
    /\ TextLen(container) = 200
    /\ \E x \in SeqRange(find_all(Soup, 1, {"div"})) : TextLen(x) > 200

-----------------------------------------------------------------------------
(* Claims about _best_src_from_srcset *)

\* the number before the w or x suffix of the descriptor, in halves, and 0
\* for a part without descriptor or with one that holds no number
CandidateScore(part) ==
    LET pieces == SplitWords(part)
    IN  IF Len(pieces) < 2 THEN 0
        ELSE CASE pieces[2] \in {<<"2x">>, <<"2w">>} -> 4
               [] pieces[2] = <<"3x">> -> 6
               [] pieces[2] = <<"-1x">> -> -2
               [] OTHER -> 0

\* the URL of the latest of the non-empty parts of highest score, None
\* without a non-empty part
HighestLatest(srcset) ==
    LET parts == SplitComma(srcset)
        filled == {i \in 1..Len(parts) : Strip(parts[i]) # <<>>}
        top == {i \in filled : \A j \in filled :
                                  CandidateScore(parts[j]) <= CandidateScore(parts[i])}
    IN  IF filled = {} THEN None
        ELSE SplitWords(parts[CHOOSE i \in top : \A j \in top : j <= i])[1]

\* the images of the container that have nothing but a srcset
SrcsetImages ==
    {x \in SeqRange(find_all(snap.images, container, {"img"})) :
        DOMAIN snap.images[x].attrs = {"srcset"}}

SrcsetResolved(x, srcset) ==
    IF HighestLatest(srcset) = None
    THEN x \notin SeqRange(Descendants(dom, container))
    ELSE /\ x \in SeqRange(Descendants(dom, container))
         /\ Get(dom[x], "src") = urljoin(url, HighestLatest(srcset))

\* C14: for every srcset, _best_src_from_srcset returns the URL of the
\* non-empty comma-separated candidate of highest score, the score being the
\* number before the w or x suffix and 0 for a missing or unparsable
\* descriptor; of candidates with the highest score the latest; and none only
\* when there is no non-empty candidate.
C14_SrcsetHighestScoreLatest ==
    pc = "collect" =>
        \A x \in SrcsetImages : SrcsetResolved(x, Get(snap.images[x], "srcset"))

\* the same for the srcsets without a nan descriptor
SrcsetHighestScoreLatestWithoutNan ==
    pc = "collect" =>
        \A x \in SrcsetImages :
            ~ContainsAnyAtom(Get(snap.images[x], "srcset"), {"nanx"}) =>
                SrcsetResolved(x, Get(snap.images[x], "srcset"))

=============================================================================
